---- MODULE Spec2Model ----
(***************************************************************************)
(* State-machine model of the magnatepoint backend ETL pipeline:           *)
(*   - the SpendSense fact loader (app/routers/etl.py,                     *)
(*     load_staging_for_user) over txn_staging / txn_fact / txn_enriched,  *)
(*   - the manual transaction API (app/routers/transactions.py),           *)
(*   - the source parsers that feed staging (normalize_excel_df,           *)
(*     parse_pdf_generic_lines, parse_pdf_by_bank),                        *)
(*   - the rule engine (apply_categorization_rules),                       *)
(*   - the Celery batch tasks (app/tasks/etl_tasks.py).                    *)
(* Amounts are integers (currency units); confidences are hundredths.      *)
(***************************************************************************)
EXTENDS Integers, Sequences, FiniteSets, TLC

\* ------------------------------------------------------------------------
\* Bounds of the model (not program constants)
\* ------------------------------------------------------------------------
MaxUploads == 2

MaxRuns == 2

MaxManual == 1

\* messages the broker delivers a second time
MaxRedeliver == 1

\* bulk imports served
MaxApiCalls == 2

\* rules in the categorization rule table
MaxRules == 3

\* ------------------------------------------------------------------------
\* Program constants
\* ------------------------------------------------------------------------
\* transactions.py:931/939  Decimal("0.99")
ManualEditConfidence == 99

\* transactions.py:567/759  Decimal("0.90")
ManualCreateConfidence == 90

\* etl.py:1538  1.0 if subcategory_code
LoaderConfidenceWithSub == 100

\* etl.py:1538  else 0.80
LoaderConfidenceNoSub == 80

NULL == "NULL"

Users == {"u1"}

Loaders == {"L1", "L2"}

\* ------------------------------------------------------------------------
\* Generic helpers
\* ------------------------------------------------------------------------
Abs(x) == IF x < 0 THEN -x ELSE x

RECURSIVE SeqToSet(_)
SeqToSet(s) == IF s = <<>> THEN {} ELSE {Head(s)} \cup SeqToSet(Tail(s))

\* all orderings of a finite set, as sequences without repetition
Perms(S) == {s \in [1..Cardinality(S) -> S] : \A i, j \in 1..Cardinality(S) : i # j => s[i] # s[j]}

\* ------------------------------------------------------------------------
\* Text model.  A date / amount string is modelled by what strptime and
\* float() make of it; a free text by the keywords that occur in it.
\* ------------------------------------------------------------------------
None == <<>>

Some(v) == <<v>>

\* datetime.strptime(date_raw, fmt).date(): the day number, or None on ValueError
strptime(date_raw, fmt) ==
    CASE date_raw = "15/01/2024" /\ fmt = "%d/%m/%Y" -> Some(15)
      [] date_raw = "16/01/24"   /\ fmt = "%d/%m/%y" -> Some(16)
      [] date_raw = "15-01-2024" /\ fmt = "%d-%m-%Y" -> Some(15)
      [] date_raw = "16-01-24"   /\ fmt = "%d-%m-%y" -> Some(16)
      [] date_raw = "15-Jan-2024" /\ fmt = "%d-%b-%Y" -> Some(15)
      [] OTHER -> None

\* amt_raw.replace(",", "")
replace_comma(amt_raw) ==
    CASE amt_raw = "1,450.00" -> "1450.00"
      [] amt_raw = ","        -> ""
      [] OTHER -> amt_raw

\* float(text): the number, or None on ValueError
float(text) ==
    CASE text = "450.00"  -> Some(450)
      [] text = "1450.00" -> Some(1450)
      [] text = "0"       -> Some(0)
      [] text = "0.00"    -> Some(0)
      [] OTHER -> None

\* str.upper() on the debit/credit token the (case-insensitive) regex captured
upper(dc) ==
    CASE dc = "dr" -> "DR"
      [] dc = "cr" -> "CR"
      [] dc = "debit" -> "DEBIT"
      [] dc = "credit" -> "CREDIT"
      [] OTHER -> dc

\* ------------------------------------------------------------------------
\* parse_pdf_generic_lines (etl.py:717-772).  A text line is the record of
\* the groups the line regex captures, or NoMatch when pattern.search fails.
\* ------------------------------------------------------------------------
NoMatch == [m |-> FALSE, date |-> "", desc |-> "", amount |-> "", dc |-> ""]

Line(d, desc, a, dc) == [m |-> TRUE, date |-> d, desc |-> desc, amount |-> a, dc |-> dc]

\* etl.py:741-755: DD/MM/YYYY, DD/MM/YY, DD-MM-YYYY, DD-MM-YY, first success wins
parse_line_date(dt_raw) ==
    IF strptime(dt_raw, "%d/%m/%Y") # None THEN strptime(dt_raw, "%d/%m/%Y")
    ELSE IF strptime(dt_raw, "%d/%m/%y") # None THEN strptime(dt_raw, "%d/%m/%y")
    ELSE IF strptime(dt_raw, "%d-%m-%Y") # None THEN strptime(dt_raw, "%d-%m-%Y")
    ELSE strptime(dt_raw, "%d-%m-%y")

\* etl.py:731-770: the rows one line contributes (zero or one)
parse_pdf_generic_line(line) ==
    IF ~line.m THEN <<>>
    ELSE LET dt == parse_line_date(line.date)
             amount == float(replace_comma(line.amount))
             dc == upper(line.dc)
             direction == IF dc \in {"DR", "DEBIT"} THEN "debit" ELSE "credit"
         IN IF dt = None THEN <<>>
            ELSE IF amount = None THEN <<>>
            ELSE << [txn_date |-> dt[1], amount |-> amount[1], direction |-> direction,
                     description |-> line.desc, ref_no |-> NULL] >>

RECURSIVE parse_pdf_generic_lines(_)
parse_pdf_generic_lines(lines) ==
    IF lines = <<>> THEN <<>>
    ELSE parse_pdf_generic_line(Head(lines)) \o parse_pdf_generic_lines(Tail(lines))

\* etl.py:788-829 (pages already opened): per-page parsing, concatenated
RECURSIVE parse_pdf_statement(_)
parse_pdf_statement(pages) ==
    IF pages = <<>> THEN <<>>
    ELSE parse_pdf_generic_lines(Head(pages)) \o parse_pdf_statement(Tail(pages))


\* ------------------------------------------------------------------------
\* normalize_excel_df (etl.py:134-356).  A sheet is [columns, rows]: the
\* column labels (already stripped and lower-cased, etl.py:142) and, per
\* row, one cell per column.  A cell is a number, NaN, or a text.
\* ------------------------------------------------------------------------
Num(n) == [t |-> "num", v |-> n, s |-> ""]

NaNCell == [t |-> "nan", v |-> 0, s |-> "nan"]

Str(x) == [t |-> "str", v |-> 0, s |-> x]

\* str.lower()
lower(x) ==
    CASE x = "SWIGGY ORDER"   -> "swiggy order"
      [] x = "AMAZON REFUND"  -> "amazon refund"
      [] x = "ACME SALARY"    -> "acme salary"
      [] x = "UPI RAVI KUMAR" -> "upi ravi kumar"
      [] x = "RAVI KUMAR"     -> "ravi kumar"
      [] x = "CLOSING BALANCE" -> "closing balance"
      [] x = "INTEREST"       -> "interest"
      [] x = "LONG NARRATION" -> "long narration"
      [] x = "VOID"           -> "void"
      [] x = "Swiggy"         -> "swiggy"
      [] x = "SWIGGY"         -> "swiggy"
      [] x = "Sample PDF Transaction" -> "sample pdf transaction"
      [] x = "HDFC BANK Ltd"  -> "hdfc bank ltd"
      [] x = "Statement of Account" -> "statement of account"
      [] x = "Value Date"     -> "value date"
      [] x = "Narration"      -> "narration"
      [] x = "Withdrawal Amt." -> "withdrawal amt."
      [] x = "Deposit Amt."   -> "deposit amt."
      [] x = "SWIGGY PAYMENT" -> "swiggy payment"
      [] x = "Notes"          -> "notes"
      [] x = "UBER EATS ORDER" -> "uber eats order"
      [] x = "UBER RIDE"      -> "uber ride"
      [] x = "AMAZON PRIME RENEWAL" -> "amazon prime renewal"
      [] x = "AMAZON SHOPPING" -> "amazon shopping"
      [] x = "GAS BILL PAYMENT" -> "gas bill payment"
      [] x = "INDANE GAS"     -> "indane gas"
      [] x = "HOME LOAN EMI"  -> "home loan emi"
      [] x = "HOME LOAN REPAYMENT" -> "home loan repayment"
      [] x = "HEALTH INSURANCE PREMIUM" -> "health insurance premium"
      [] x = "HEALTH INSURANCE" -> "health insurance"
      [] x = "CAR INSURANCE"  -> "car insurance"
      [] x = "POLICY RENEWAL" -> "policy renewal"
      [] x = "CREDIT CARD PAYMENT" -> "credit card payment"
      [] x = "DISNEY+ HOTSTAR" -> "disney+ hotstar"
      [] x = "OVERDUE INSTALLMENT" -> "overdue installment"
      [] x = "CASH DEPOSIT"   -> "cash deposit"
      [] x = "Statement Date" -> "statement date"
      [] x = "Closing Balance" -> "closing balance"
      [] x = "Date"           -> "date"
      [] x = "Description"    -> "description"
      [] x = "Amount"         -> "amount"
      [] x = "Type"           -> "type"
      [] x = "DR"             -> "dr"
      [] x = "CR"             -> "cr"
      [] x = "Debit"          -> "debit"
      [] OTHER -> x

isna(val) == val.t = "nan"

\* the keywords of the fuzzy tests that occur in a column label (substring test)
ColWords(col) ==
    CASE col = "date"            -> {"date"}
      [] col = "value date"      -> {"date", "value"}
      [] col = "value dt"        -> {"value"}
      [] col = "narration"       -> {"narration"}
      [] col = "description"     -> {"description", "desc"}
      [] col = "withdrawal amt." -> {"withdrawal"}
      [] col = "deposit amt."    -> {"deposit"}
      [] col = "debit amount"    -> {"debit", "amount"}
      [] col = "credit amount"   -> {"credit", "amount"}
      [] col = "amount"          -> {"amount"}
      [] col = "type"            -> {}
      [] col = "chq/ref number"  -> {"chq", "ref"}
      [] col = "statement date"  -> {"date"}
      [] col = "closing balance" -> {"balance"}
      [] OTHER -> {}

\* etl.py:166-218: the exact per-bank column tables
BankMap(bank_key, col) ==
    CASE bank_key = "HDFC" ->
           (CASE col \in {"date", "value date", "value_date"} -> "txn_date"
              [] col \in {"withdrawal amt.", "withdrawal_amt"} -> "debit"
              [] col \in {"deposit amt.", "deposit_amt"} -> "credit"
              [] col = "narration" -> "description"
              [] col \in {"chq/ref number", "chq_ref_number", "ref"} -> "ref_no"
              [] OTHER -> NULL)
      [] bank_key = "ICICI" ->
           (CASE col \in {"transaction date", "transaction_date", "date"} -> "txn_date"
              [] col \in {"withdrawal amount (inr)", "withdrawal_amount"} -> "debit"
              [] col \in {"deposit amount (inr)", "deposit_amount"} -> "credit"
              [] col \in {"transaction remarks", "transaction_remarks", "remarks"} -> "description"
              [] col \in {"cheque number", "cheque_number"} -> "ref_no"
              [] OTHER -> NULL)
      [] bank_key = "SBI" ->
           (CASE col \in {"date", "value date"} -> "txn_date"
              [] col = "withdrawal" -> "debit"
              [] col = "deposit" -> "credit"
              [] col \in {"description", "narration"} -> "description"
              [] col \in {"ref no", "ref_no"} -> "ref_no"
              [] OTHER -> NULL)
      [] OTHER ->
           (CASE col \in {"date", "transaction_date"} -> "txn_date"
              [] col = "amount" -> "amount"
              [] col \in {"type", "transaction_type"} -> "direction"
              [] col \in {"description", "narration"} -> "description"
              [] col \in {"ref", "reference", "reference_id"} -> "ref_no"
              [] OTHER -> NULL)

\* etl.py:270-305: the fuzzy per-bank column rules, tried when the table misses
FuzzyKey(bank_key, col) ==
    LET w == ColWords(col)
        money == IF "withdrawal" \in w \/ ("debit" \in w /\ "amount" \in w) THEN "debit"
                 ELSE IF "deposit" \in w \/ ("credit" \in w /\ "amount" \in w) THEN "credit"
                 ELSE NULL
    IN CASE bank_key = "HDFC" ->
              IF "date" \in w /\ ("value" \in w \/ col = "date") THEN "txn_date"
              ELSE IF {"narration", "description", "particulars"} \cap w # {} THEN "description"
              ELSE IF money # NULL THEN money
              ELSE IF {"chq", "ref"} \cap w # {} THEN "ref_no"
              ELSE NULL
         [] bank_key = "ICICI" ->
              IF "transaction date" \in w \/ col = "date" THEN "txn_date"
              ELSE IF {"remarks", "description"} \cap w # {} THEN "description"
              ELSE IF money # NULL THEN money
              ELSE IF {"cheque", "ref"} \cap w # {} THEN "ref_no"
              ELSE NULL
         [] bank_key = "SBI" ->
              IF "date" \in w THEN "txn_date"
              ELSE IF {"narration", "description"} \cap w # {} THEN "description"
              ELSE IF money # NULL THEN money
              ELSE IF "ref" \in w THEN "ref_no"
              ELSE NULL
         [] OTHER -> NULL

\* etl.py:266-305
ColumnKey(bank_key, col) ==
    IF BankMap(bank_key, col) # NULL THEN BankMap(bank_key, col) ELSE FuzzyKey(bank_key, col)

EmptyRec == [txn_date |-> None, amount |-> None, direction |-> NULL, description |-> "", ref_no |-> NULL]

\* etl.py:320-325: a debit / credit column cell: float(val), as-is
DebitCreditCell(rec, key, val) ==
    IF isna(val) \/ val.v = 0 THEN rec
    ELSE [rec EXCEPT !.amount = Some(val.v),
                     !.direction = IF key = "debit" THEN "debit" ELSE "credit"]

\* etl.py:307-331: one cell of the row applied to the record being built
MapCell(rec, key, val) ==
    CASE key = NULL -> rec
      [] key = "txn_date" ->
           IF isna(val) THEN rec
           ELSE IF val.t = "num" THEN [rec EXCEPT !.txn_date = Some(val.v)]
           ELSE rec
      [] key \in {"debit", "credit"} -> DebitCreditCell(rec, key, val)
      [] key = "amount" ->
           IF isna(val) \/ val.v = 0 THEN rec
           ELSE [rec EXCEPT !.amount = Some(Abs(val.v))]
      [] key = "direction" -> [rec EXCEPT !.direction = IF isna(val) THEN NULL ELSE val.s]
      [] key = "ref_no" -> [rec EXCEPT !.ref_no = IF isna(val) THEN NULL ELSE val.s]
      [] OTHER -> [rec EXCEPT !.description = IF isna(val) THEN NULL ELSE val.s]

RECURSIVE MapCells(_, _, _, _)
MapCells(bank_key, columns, cells, rec) ==
    IF columns = <<>> THEN rec
    ELSE MapCells(bank_key, Tail(columns), Tail(cells),
                  MapCell(rec, ColumnKey(bank_key, Head(columns)), Head(cells)))

\* row.get(col) of a pandas row: the cell under that label, NaNCell if absent
RowGet(columns, cells, col) ==
    IF \E i \in 1..Len(columns) : columns[i] = col
    THEN cells[CHOOSE i \in 1..Len(columns) : columns[i] = col]
    ELSE NaNCell

\* etl.py:333-348: direction of a GENERIC row from the type cell, else from the sign
DeriveDirection(bank_key, columns, cells, rec) ==
    IF bank_key = "GENERIC" /\ rec.direction = NULL
    THEN LET type_val == IF \E i \in 1..Len(columns) : columns[i] = "type"
                         THEN RowGet(columns, cells, "type").s ELSE ""
             orig_amt == RowGet(columns, cells, "amount")
         IN IF type_val \in {"d", "dr", "debit"} THEN [rec EXCEPT !.direction = "debit"]
            ELSE IF type_val \in {"c", "cr", "credit"} THEN [rec EXCEPT !.direction = "credit"]
            ELSE IF rec.amount # None /\ rec.amount[1] # 0
                 THEN IF orig_amt.t = "num" /\ orig_amt.v # 0 /\ orig_amt.v < 0
                      THEN [rec EXCEPT !.direction = "debit", !.amount = Some(Abs(orig_amt.v))]
                      ELSE [rec EXCEPT !.direction = "credit"]
                 ELSE rec
    ELSE rec

\* etl.py:253-354: the canonical rows one sheet row contributes (zero or one)
normalize_row(bank_key, columns, cells) ==
    LET rec == DeriveDirection(bank_key, columns, cells, MapCells(bank_key, columns, cells, EmptyRec))
    IN IF rec.txn_date = None \/ rec.amount = None \/ rec.direction \in {NULL, ""}
       THEN <<>>
       ELSE << [txn_date |-> rec.txn_date[1], amount |-> rec.amount[1],
                direction |-> rec.direction, description |-> rec.description,
                ref_no |-> rec.ref_no] >>

RECURSIVE normalize_rows(_, _, _)
normalize_rows(bank_key, columns, rows) ==
    IF rows = <<>> THEN <<>>
    ELSE normalize_row(bank_key, columns, Head(rows)) \o normalize_rows(bank_key, columns, Tail(rows))

\* etl.py:146-161: GENERIC is overridden from the first cell of the sheet
DetectBank(bank_code, rows) ==
    LET first_cell == IF rows # <<>> /\ Head(rows) # <<>> THEN lower(Head(rows)[1].s) ELSE ""
    IN IF bank_code # "GENERIC" THEN bank_code
       ELSE IF first_cell = "hdfc bank ltd" THEN "HDFC"
       ELSE IF first_cell = "icici bank" THEN "ICICI"
       ELSE IF first_cell \in {"state bank of india", "sbi"} THEN "SBI"
       ELSE bank_code

\* etl.py:223-249: the sanity check for a date and a description column
HasDateAndDesc(bank_key, columns) ==
    /\ \E i \in 1..Len(columns) :
          \/ ("date" \in ColWords(columns[i]) /\ ("value" \in ColWords(columns[i]) \/ columns[i] = "date"))
          \/ BankMap(bank_key, columns[i]) = "txn_date"
    /\ \E i \in 1..Len(columns) :
          \/ {"narration", "description", "particulars", "remarks"} \cap ColWords(columns[i]) # {}
          \/ BankMap(bank_key, columns[i]) = "description"

\* normalize_excel_df: the canonical rows; none when the sanity check raises
\* ValueError (the caller then falls back to the line parser)
normalize_excel_df(sheet) ==
    LET bank_code == DetectBank(sheet.bank_code, sheet.rows)
        bank_key == IF bank_code \in {"HDFC", "ICICI", "SBI", "GENERIC"} THEN bank_code ELSE "GENERIC"
    IN IF ~HasDateAndDesc(bank_key, sheet.columns) THEN <<>>
       ELSE normalize_rows(bank_key, sheet.columns, sheet.rows)


\* ------------------------------------------------------------------------
\* Source documents a user uploads (inputs of the staging pipeline)
\* ------------------------------------------------------------------------
HdfcColumns == <<"value date", "narration", "withdrawal amt.", "deposit amt.">>

GenericColumns == <<"date", "description", "amount", "type">>

\* a sheet with a date, a description and an unsigned amount only
PlainColumns == <<"date", "description", "amount">>

Documents == {
    [id |-> "hdfc.xlsx", kind |-> "excel", bank_code |-> "HDFC", columns |-> HdfcColumns, pages |-> <<>>,
     rows |-> << <<Num(15), Str("SWIGGY ORDER"), Num(450), NaNCell>> >>],
    [id |-> "hdfc_neg.xlsx", kind |-> "excel", bank_code |-> "HDFC", columns |-> HdfcColumns, pages |-> <<>>,
     rows |-> << <<Num(16), Str("AMAZON REFUND"), Num(-450), NaNCell>> >>],
    [id |-> "generic.xlsx", kind |-> "excel", bank_code |-> "GENERIC", columns |-> GenericColumns, pages |-> <<>>,
     rows |-> << <<Num(16), Str("INTEREST"), Num(1450), Str("credit")>>,
                 <<NaNCell, Str("CLOSING BALANCE"), Num(1450), NaNCell>> >>],
    [id |-> "hdfc.pdf", kind |-> "pdf", bank_code |-> "HDFC", columns |-> <<>>, rows |-> <<>>,
     pages |-> << <<NoMatch, Line("15/01/2024", "SWIGGY ORDER", "450.00", "dr")>> >>],
    [id |-> "upi.pdf", kind |-> "pdf", bank_code |-> "GENERIC", columns |-> <<>>, rows |-> <<>>,
     pages |-> << <<Line("16/01/24", "UPI RAVI KUMAR", "0.00", "CR")>>,
                  <<Line("32/13/2024", "VOID", "450.00", "DR")>> >>],
    [id |-> "long.pdf", kind |-> "pdf", bank_code |-> "GENERIC", columns |-> <<>>, rows |-> <<>>,
     pages |-> << <<Line("15-01-2024", "LONG NARRATION", "1,450.00", "DEBIT")>> >>],
    [id |-> "plain.xlsx", kind |-> "excel", bank_code |-> "GENERIC", columns |-> PlainColumns, pages |-> <<>>,
     rows |-> << <<Num(16), Str("ACME SALARY"), Num(1450)>> >>]
  }

\* canonical rows of a document: etl.py:578 (Excel) and etl.py:847 (PDF)
CanonicalRows(doc) ==
    IF doc.kind = "excel" THEN normalize_excel_df(doc) ELSE parse_pdf_statement(doc.pages)


\* ------------------------------------------------------------------------
\* _extract_and_categorize (etl.py:1200-1277) and
\* _infer_category_from_keywords (etl.py:1279-1412)
\* ------------------------------------------------------------------------
\* the keywords of the loader's lists that occur in a (lower-case) text, by
\* substring: "ravi kumar" contains "ravi" and also "vi"
Keywords(text) ==
    CASE text = "swiggy order"   -> {"swiggy"}
      [] text = "amazon refund"  -> {"amazon"}
      [] text = "upi ravi kumar" -> {"upi", "ravi", "vi"}
      [] text = "ravi kumar"     -> {"ravi", "vi"}
      [] text = "acme salary"    -> {"salary"}
      [] OTHER -> {}

\* len(text.split())
WordCount(text) ==
    CASE text \in {"swiggy order", "amazon refund", "acme salary", "ravi kumar", "closing balance",
                  "long narration"} -> 2
      [] text = "upi ravi kumar" -> 3
      [] text = "" -> 0
      [] OTHER -> 1

\* app.services.merchant_extractor.extract_merchant_from_description
extract_merchant_from_description(description) ==
    IF description = "UPI RAVI KUMAR" THEN "RAVI KUMAR" ELSE NULL

\* app.services.merchant_extractor.normalize_merchant_name
normalize_merchant_name(name) == lower(name)

any(keys, text) == keys \cap Keywords(text) # {}

BusinessWords == {"enterprises", "services", "solutions", "technologies", "private", "limited",
                  "hotel", "hotels", "resort", "lodge"}

CommonNames == {"abhinav", "shobha", "vasantha", "vasanthakumari", "yashwanth", "yashwant",
                "sriram", "kumari", "kiran", "uday", "navalga", "jatavath", "shaik", "zuber",
                "mohammad", "mohammed", "sameer", "shakeel", "arifa", "begum", "gurajala",
                "josaf", "pathlavath", "ramesh", "pittala", "yadagiri", "ippalui", "krishnaiah",
                "sandeep", "venkata", "hanuman", "naseer", "malla"}

HotelWords == {"hotel", "hotels", "resort", "lodge", "inn", "accommodation", "taj", "oberoi",
               "itc", "hilton", "marriott", "hyatt", "oyo", "booking", "stay"}

\* etl.py:1279-1412: consecutive tests returning the same category are merged
_infer_category_from_keywords(text) ==
    LET is_personal_name == WordCount(text) >= 2 /\ WordCount(text) <= 4 /\ ~any(BusinessWords, text)
    IN IF text = "" THEN "shopping"
       ELSE IF any({"zomato", "swiggy", "food delivery", "dine", "restaurant", "truffles", "food",
                    "meal", "pizza", "burger", "cafe", "coffee", "cup", "theory", "barista", "pub",
                    "bar", "club", "lounge", "party", "event", "pan", "paan", "beeda",
                    "cigarette"}, text) THEN "nightlife"
       ELSE IF any({"bigbasket", "blinkit", "zepto", "dmart", "supermarket", "grocery", "kirana",
                    "provisions", "bescom", "bwssb", "tsspdcl", "electricity", "power", "water",
                    "water bill", "lpg", "gas", "cylinder", "apartment", "rent", "society",
                    "maintenance", "property", "house", "flat"}, text) THEN "home_needs"
       ELSE IF any({"uber", "ola", "rapido", "cab", "taxi", "ride", "auto", "rickshaw", "metro",
                    "bus", "train", "irctc", "railways", "indigo", "vistara", "air india", "akasa",
                    "flight", "airline", "fuel", "petrol", "diesel", "fastag", "toll", "nhai",
                    "parking"} \cup HotelWords, text) THEN "transport"
       ELSE IF any({"amazon", "flipkart", "myntra", "ajio", "meesho", "croma", "reliance digital",
                    "electronics", "gadget", "apparel", "clothing", "footwear", "shirt", "pant",
                    "dress", "bazaar", "mall", "store", "shop"}, text) THEN "shopping"
       ELSE IF any({"jio", "airtel", "vi", "vodafone", "idea", "bsnl", "mobile", "recharge",
                    "broadband", "internet", "jiofiber", "act", "hathway", "bsnl ftth", "tata play",
                    "dth", "cable", "dishtv", "sun direct", "credit card", "cc payment",
                    "card payment", "card bill"}, text) THEN "bills"
       ELSE IF any({"doctor", "hospital", "clinic", "consultation", "pharmacy", "medicine",
                    "medplus", "apollo pharmacy", "diagnostics", "lab", "thyrocare", "lal path",
                    "fitness", "gym", "yoga"}, text) THEN "health"
       ELSE IF any({"loan", "emi", "personal loan", "home loan", "car loan"}, text) THEN "loans"
       ELSE IF any({"lic", "hdfc life", "sbi life", "insurance", "life insurance"}, text) THEN "insurance"
       ELSE IF any({"hdfc rd", "rd ", "recurring deposit", "hdfc mf", "index fund", "sip",
                    "mutual fund", "investment", "stocks", "shares", "ppf", "fd",
                    "fixed deposit"}, text) THEN "banks"
       ELSE IF any({"income tax", "tds", "advance tax", "gst", "property tax", "traffic", "fine",
                    "challan"}, text) THEN "govt_tax"
       ELSE IF is_personal_name /\ any(CommonNames, text) THEN "transfers"
       ELSE IF ~is_personal_name /\ any(HotelWords, text) THEN "travel"
       ELSE IF any({"cred", "american express", "amex", "credit card", "cc payment",
                    "card payment"}, text) THEN "bills"
       ELSE IF any({"upi", "imps", "neft", "rtgs"}, text)
            THEN IF any({"enterprises", "services", "solutions", "traders", "store", "shop",
                         "packages", "industries", "trading", "technologies", "technology",
                         "private", "limited", "pvt", "ltd"}, text)
                 THEN "shopping" ELSE "transfers"
       ELSE "shopping"

\* app.services.pg_rules_client.PGRulesClient.match_merchant: the rule whose
\* pattern is the normalized merchant (user rules and global rules), or none
match_merchant(rules, merchant_name) ==
    {r \in rules : r.pattern = merchant_name}

\* etl.py:1240-1271: keyword fallback for credits
CreditFallback(merchant_normalized, description) ==
    LET search_text == lower(IF merchant_normalized # "" THEN merchant_normalized ELSE description)
        is_personal_name ==
            WordCount(search_text) >= 2 /\ WordCount(search_text) <= 4
            /\ ~any(BusinessWords \cup {"industries", "trading", "traders", "store", "shop", "pvt",
                                        "ltd", "inc", "corp", "corporation"}, search_text)
    IN IF is_personal_name \/ any(CommonNames \cup {"satya", "srinivasa", "ravi", "sri", "sai",
                                                    "teja", "industr"}, search_text)
       THEN <<merchant_normalized, "transfers", "p2p_transfer">>
       ELSE IF any({"technologies", "technology", "private", "limited", "pvt", "ltd", "inc",
                    "corporation", "corp", "industries", "clearing", "nse", "bse", "nsec"},
                   lower(merchant_normalized))
       THEN <<merchant_normalized, "income", "salary">>
       ELSE <<merchant_normalized, "transfers", "p2p_personal">>

\* etl.py:1200-1277: <<merchant_name_norm, category_code, subcategory_code>>
_extract_and_categorize(rules, description, merchant_raw, direction) ==
    LET extracted == IF merchant_raw = NULL \/ lower(merchant_raw) \in {"unknown", "nan", ""}
                     THEN extract_merchant_from_description(description)
                     ELSE merchant_raw
        merchant_normalized == normalize_merchant_name(
                                   IF extracted # NULL /\ extracted # "" THEN extracted ELSE description)
        matches == {r \in match_merchant(rules, merchant_normalized) : r.category_code # NULL}
        preferred == IF \E r \in matches : r.learned THEN {r \in matches : r.learned} ELSE matches
    IN IF matches # {}
       THEN LET rule_match == CHOOSE r \in preferred : TRUE
            IN <<IF rule_match.merchant_name_norm # NULL THEN rule_match.merchant_name_norm
                 ELSE merchant_normalized,
                 rule_match.category_code, rule_match.subcategory_code>>
       ELSE IF direction = "credit" THEN CreditFallback(merchant_normalized, description)
       ELSE <<merchant_normalized,
              _infer_category_from_keywords(
                  lower(IF merchant_normalized # "" THEN merchant_normalized ELSE description)),
              NULL>>

\* spendsense.fn_txn_fact_fp (database function): a digest of the seven
\* fields, modelled as the tuple itself (no collisions)
fn_txn_fact_fp(u, d, a, dir, desc, m, acct) == <<u, d, a, dir, desc, m, acct>>


\* ------------------------------------------------------------------------
\* State
\* ------------------------------------------------------------------------
VARIABLES
    staging,         \* spendsense.txn_staging (committed rows)
    uploads,         \* upload_batch ids staged so far
    facts,           \* spendsense.txn_fact (committed rows)
    enriched,        \* spendsense.txn_enriched (committed rows)
    merchant_rules,  \* merchant_rules learned from edits
    pc,              \* per loader run: position in load_staging_for_user
    rows,            \* per loader run: the staging rows it queried
    idx,             \* per loader run: index of the row being processed
    inserted,        \* per loader run: the inserted counter
    session,         \* per loader run: uncommitted facts / enrichment rows
    runs,            \* per loader: number of runs it has started
    load_result,     \* per loader run: outcome of its last call
    insert_err,      \* per loader run: the exception its except clause caught last
    manual_ops,      \* number of manual API calls served
    etl_batch,       \* etl_batches rows, by batch_id
    staged,          \* staged_transactions rows
    queue,           \* Celery messages waiting in the broker
    worker,          \* per worker: the parse_file_task it is in the middle of
    delivered,       \* messages a worker has taken
    redelivered,     \* the messages the broker has delivered again
    stage_seq,       \* number of staging passes so far (fresh row ids)
    gmail_active,    \* gmail_accounts.is_active of the user's account
    task_exc,        \* per batch: how the last task run on it ended
    upload_result,   \* per batch: how the upload request was served
    rule_table,      \* categorization rules, in insertion order
    rule_row,        \* the row handed to apply_categorization_rules
    rule_out,        \* the row it returned
    job,             \* the upload request or worker task being served
    retry_log,       \* the retries the worker task has asked for
    pipeline_calls,  \* the ETLPipeline steps called while serving it, in order
    validation,      \* what validate_staged_transactions reported
    canonical,       \* the canonical rows the parser produced
    response,        \* the HTTP response or the task result
    gmail_msgs,      \* the messages handed to gmail_messages_to_staged_transactions
    gmail_records,   \* the records it returned
    gmail_done,      \* whether it has been called
    kw_desc,         \* the description handed to categorize_transaction
    kw_out,          \* the (category, subcategory, confidence) it returned
    api_response,    \* the response of the last request to the transaction / batch API
    api_calls        \* number of bulk imports served

loadVars == <<staging, uploads, facts, enriched, merchant_rules, pc, rows, idx, inserted,
              session, runs, load_result, insert_err, manual_ops>>

batchVars == <<etl_batch, staged, queue, worker, delivered, redelivered, stage_seq, gmail_active,
               task_exc, upload_result>>

rulesVars == <<rule_table, rule_row, rule_out>>

syncVars == <<job, retry_log, pipeline_calls, validation, canonical, response>>

parseVars == <<gmail_msgs, gmail_records, gmail_done, kw_desc, kw_out>>

apiVars == <<api_response, api_calls>>

vars == <<loadVars, batchVars, rulesVars, syncVars, parseVars, apiVars>>

\* global merchant rules present in the rule table
GlobalRules == {
    [pattern |-> "swiggy order", category_code |-> "nightlife",
     subcategory_code |-> "food_delivery", merchant_name_norm |-> NULL, learned |-> FALSE]
  }

\* dim_category / dim_subcategory rows (subcategory -> parent category)
DimCategory == {"nightlife", "shopping", "transfers", "income", "bills", "others"}

DimSubcategory == {[subcategory_code |-> "food_delivery", category_code |-> "nightlife"],
                   [subcategory_code |-> "online_shopping", category_code |-> "shopping"],
                   [subcategory_code |-> "p2p_transfer", category_code |-> "transfers"]}

EmptySession == [facts |-> {}, enriched |-> {}]

\* ------------------------------------------------------------------------
\* Staging of an uploaded document (ETLPipeline.stage_transactions and
\* validate_staged_transactions: structural completeness only)
\* ------------------------------------------------------------------------
StagingRow(user_id, upload_id, i, r) ==
    [staging_id |-> <<upload_id, i>>, user_id |-> user_id, upload_id |-> upload_id,
     txn_date |-> r.txn_date, amount |-> r.amount, direction |-> r.direction,
     description_raw |-> r.description, merchant_raw |-> NULL,
     parsed_ok |-> (r.description # NULL /\ r.direction # NULL)]

StageDocument(user_id, doc) ==
    /\ Cardinality(uploads) < MaxUploads
    /\ doc.id \notin uploads
    /\ LET canon == CanonicalRows(doc)
       IN staging' = staging \cup {StagingRow(user_id, doc.id, i, canon[i]) : i \in 1..Len(canon)}
    /\ uploads' = uploads \cup {doc.id}
    /\ UNCHANGED <<facts, enriched, merchant_rules, pc, rows, idx, inserted, session, runs,
                   load_result, insert_err, manual_ops>>
    /\ UNCHANGED <<batchVars, rulesVars, syncVars, parseVars, apiVars>>


\* ------------------------------------------------------------------------
\* Database behaviour of one fact + enrichment insert (schema of
\* spendsense.txn_fact / txn_enriched): the error the statements raise
\* ------------------------------------------------------------------------
NoError == [cls |-> "none", words |-> {}]

UniqueViolation == [cls |-> "IntegrityError",
                    words |-> {"duplicate", "unique", "ux_txn_fact_dedupe_fp", "dedupe_fp"}]

ForeignKeyViolation == [cls |-> "IntegrityError", words |-> {"foreign key"}]

DataError == [cls |-> "DataError", words |-> {"value too long"}]

\* INSERT txn_fact (flush), UPDATE dedupe_fp, INSERT txn_enriched, in that order
DbError(committed, fact, enr) ==
    IF fact.description = "LONG NARRATION" THEN DataError
    ELSE IF \E f \in committed : f.dedupe_fp = fact.dedupe_fp THEN UniqueViolation
    ELSE IF enr.subcategory_code # NULL
            /\ enr.subcategory_code \notin {d.subcategory_code : d \in DimSubcategory}
         THEN ForeignKeyViolation
    ELSE NoError

\* a unique-index insert waits while another open transaction holds the key
Blocked(p, fp) == \E q \in Loaders \ {p} : \E f \in session[q].facts : f.dedupe_fp = fp

\* ------------------------------------------------------------------------
\* load_staging_for_user (etl.py:1190-1631)
\* ------------------------------------------------------------------------
AllRules == GlobalRules \cup merchant_rules

\* etl.py:1454-1472
RowCategorized(s) ==
    _extract_and_categorize(AllRules, IF s.description_raw = NULL THEN "" ELSE s.description_raw,
                            s.merchant_raw, s.direction)

\* variant: the upload id takes the place of the account reference
RowFp_WithUpload(s) ==
    fn_txn_fact_fp(s.user_id, s.txn_date, s.amount, s.direction,
                   IF s.description_raw = NULL THEN "" ELSE s.description_raw,
                   IF RowCategorized(s)[1] = NULL THEN "" ELSE RowCategorized(s)[1], s.upload_id)

\* etl.py:1462-1472
RowFp(s) ==
    fn_txn_fact_fp(s.user_id, s.txn_date, s.amount, s.direction,
                   IF s.description_raw = NULL THEN "" ELSE s.description_raw,
                   IF RowCategorized(s)[1] = NULL THEN "" ELSE RowCategorized(s)[1], "")

\* what the run's SELECTs see: committed rows and its own uncommitted ones
Visible(p) == facts \cup session[p].facts

CurrentRow(p) == rows[p][idx[p]]

\* etl.py:1488-1500, 1515-1523
NewFact(p, s) ==
    [txn_id |-> <<p, runs[p], idx[p]>>, user_id |-> s.user_id, upload_id |-> s.upload_id,
     source_type |-> "file", txn_date |-> s.txn_date, description |-> s.description_raw,
     amount |-> s.amount, direction |-> s.direction,
     merchant_name_norm |-> IF RowCategorized(s)[1] = "" THEN NULL ELSE RowCategorized(s)[1],
     account_ref |-> NULL, dedupe_fp |-> RowFp(s)]

\* etl.py:1538
LoaderConfidence(subcategory_code) ==
    IF subcategory_code # NULL THEN LoaderConfidenceWithSub ELSE LoaderConfidenceNoSub

\* etl.py:1525-1540
NewEnriched(p, s) ==
    LET category_code == IF RowCategorized(s)[2] \in {NULL, ""} THEN "others" ELSE RowCategorized(s)[2]
        subcategory_code == RowCategorized(s)[3]
    IN [txn_id |-> <<p, runs[p], idx[p]>>, category_code |-> category_code,
        subcategory_code |-> subcategory_code,
        rule_confidence |-> LoaderConfidence(subcategory_code)]

\* variant: no error is taken for a duplicate
is_duplicate_Never(err) == FALSE

\* etl.py:1554-1557
is_duplicate(err) ==
    \/ err.cls = "IntegrityError"
    \/ {"unique", "duplicate", "ux_txn_fact_dedupe_fp", "dedupe_fp"} \cap err.words # {}


\* variant: the rollback keeps the pending rows
SessionRollback_Keep(sess) == sess

\* etl.py:1627-1630: session.rollback() discards everything uncommitted
SessionRollback(sess) == EmptySession

RECURSIVE Sum(_, _)
Sum(f, S) == IF S = {} THEN 0 ELSE LET x == CHOOSE x \in S : TRUE IN f[x] + Sum(f, S \ {x})

\* etl.py:1414-1421: open the session and query the user's parsed rows
StartLoad(p, user_id) ==
    /\ pc[p] = "idle"
    /\ Sum(runs, Loaders) < MaxRuns
    /\ \E order \in Perms({s \in staging : s.user_id = user_id /\ s.parsed_ok}) :
          rows' = [rows EXCEPT ![p] = order]
    /\ runs' = [runs EXCEPT ![p] = @ + 1]
    /\ idx' = [idx EXCEPT ![p] = 1]
    /\ inserted' = [inserted EXCEPT ![p] = 0]
    /\ session' = [session EXCEPT ![p] = EmptySession]
    /\ load_result' = [load_result EXCEPT ![p] = "running"]
    /\ insert_err' = [insert_err EXCEPT ![p] = NoError]
    /\ pc' = [pc EXCEPT ![p] = "loop"]
    /\ UNCHANGED <<staging, uploads, facts, enriched, merchant_rules, manual_ops>>
    /\ UNCHANGED <<batchVars, rulesVars, syncVars, parseVars, apiVars>>

\* variant: an existing fact's enrichment is rewritten from the row
CheckRow_Recategorize(p) ==
    /\ pc[p] = "loop"
    /\ IF idx[p] > Len(rows[p])
       THEN /\ pc' = [pc EXCEPT ![p] = "commit"]
            /\ UNCHANGED <<idx, enriched>>
       ELSE IF \E f \in Visible(p) : f.dedupe_fp = RowFp(CurrentRow(p))
       THEN /\ idx' = [idx EXCEPT ![p] = @ + 1]
            /\ pc' = pc
            /\ enriched' =
                  LET ids == {f.txn_id : f \in {g \in facts : g.dedupe_fp = RowFp(CurrentRow(p))}}
                  IN {e \in enriched : e.txn_id \notin ids}
                     \cup {[NewEnriched(p, CurrentRow(p)) EXCEPT !.txn_id = t] : t \in ids}
       ELSE /\ pc' = [pc EXCEPT ![p] = "insert"]
            /\ UNCHANGED <<idx, enriched>>
    /\ UNCHANGED <<staging, uploads, facts, merchant_rules, rows, inserted, session,
                   runs, load_result, insert_err, manual_ops>>
    /\ UNCHANGED <<batchVars, rulesVars, syncVars, parseVars, apiVars>>

\* etl.py:1452-1483: next row, fingerprint, lookup of an existing fact
CheckRow(p) ==
    /\ pc[p] = "loop"
    /\ IF idx[p] > Len(rows[p])
       THEN /\ pc' = [pc EXCEPT ![p] = "commit"]
            /\ idx' = idx
       ELSE IF \E f \in Visible(p) : f.dedupe_fp = RowFp(CurrentRow(p))
       THEN /\ idx' = [idx EXCEPT ![p] = @ + 1]
            /\ pc' = pc
       ELSE /\ pc' = [pc EXCEPT ![p] = "insert"]
            /\ idx' = idx
    /\ UNCHANGED <<staging, uploads, facts, enriched, merchant_rules, rows, inserted, session,
                   runs, load_result, insert_err, manual_ops>>
    /\ UNCHANGED <<batchVars, rulesVars, syncVars, parseVars, apiVars>>

\* etl.py:1485-1565: the savepoint, the insert, and the except clause
InsertRow(p) ==
    /\ pc[p] = "insert"
    /\ ~Blocked(p, RowFp(CurrentRow(p)))
    /\ LET fact == NewFact(p, CurrentRow(p))
           enr == NewEnriched(p, CurrentRow(p))
           err == DbError(facts \cup session[p].facts, fact, enr)
       IN IF err = NoError
          THEN \* savepoint.commit(); inserted += 1
               /\ session' = [session EXCEPT ![p] = [facts |-> @.facts \cup {fact},
                                                     enriched |-> @.enriched \cup {enr}]]
               /\ inserted' = [inserted EXCEPT ![p] = @ + 1]
               /\ idx' = [idx EXCEPT ![p] = @ + 1]
               /\ pc' = [pc EXCEPT ![p] = "loop"]
               /\ UNCHANGED <<load_result, insert_err>>
          ELSE IF is_duplicate(err)
          THEN \* savepoint.rollback(); continue
               /\ insert_err' = [insert_err EXCEPT ![p] = err]
               /\ idx' = [idx EXCEPT ![p] = @ + 1]
               /\ pc' = [pc EXCEPT ![p] = "loop"]
               /\ UNCHANGED <<session, inserted, load_result>>
          ELSE \* savepoint.rollback(); raise -> etl.py:1627-1630 session.rollback()
               /\ insert_err' = [insert_err EXCEPT ![p] = err]
               /\ session' = [session EXCEPT ![p] = SessionRollback(@)]
               /\ pc' = [pc EXCEPT ![p] = "idle"]
               /\ load_result' = [load_result EXCEPT ![p] = "error"]
               /\ UNCHANGED <<idx, inserted>>
    /\ UNCHANGED <<staging, uploads, facts, enriched, merchant_rules, rows, runs, manual_ops>>
    /\ UNCHANGED <<batchVars, rulesVars, syncVars, parseVars, apiVars>>

\* the error of the statement the database aborts to break a lock cycle; its
\* text carries the statement, UPDATE ... SET dedupe_fp (etl.py:1515-1522)
DeadlockError == [cls |-> "OperationalError", words |-> {"deadlock detected", "dedupe_fp"}]

\* run p is at an insert whose fingerprint run q has inserted and not yet
\* committed (q's single commit comes after its loop, etl.py:1567-1568)
WaitsFor(p, q) ==
    /\ pc[p] = "insert"
    /\ \E f \in session[q].facts : f.dedupe_fp = RowFp(CurrentRow(p))

InWaitCycle(p) == \E q \in Loaders \ {p} : WaitsFor(p, q) /\ WaitsFor(q, p)

\* the database breaks the cycle by aborting p's statement; the except
\* clause of etl.py:1542-1565 handles the error
DeadlockDetected(p) ==
    /\ InWaitCycle(p)
    /\ insert_err' = [insert_err EXCEPT ![p] = DeadlockError]
    /\ IF is_duplicate(DeadlockError)
       THEN /\ idx' = [idx EXCEPT ![p] = @ + 1]
            /\ pc' = [pc EXCEPT ![p] = "loop"]
            /\ UNCHANGED <<session, load_result>>
       ELSE /\ session' = [session EXCEPT ![p] = SessionRollback(@)]
            /\ pc' = [pc EXCEPT ![p] = "idle"]
            /\ load_result' = [load_result EXCEPT ![p] = "error"]
            /\ idx' = idx
    /\ UNCHANGED <<staging, uploads, facts, enriched, merchant_rules, rows, inserted, runs,
                   manual_ops>>
    /\ UNCHANGED <<batchVars, rulesVars, syncVars, parseVars, apiVars>>

\* etl.py:1567-1568: session.commit() of all successful inserts
CommitLoad(p) ==
    /\ pc[p] = "commit"
    /\ facts' = facts \cup session[p].facts
    /\ enriched' = enriched \cup session[p].enriched
    /\ session' = [session EXCEPT ![p] = EmptySession]
    /\ pc' = [pc EXCEPT ![p] = "refresh"]
    /\ UNCHANGED <<staging, uploads, merchant_rules, rows, idx, inserted, runs, load_result,
                   insert_err, manual_ops>>
    /\ UNCHANGED <<batchVars, rulesVars, syncVars, parseVars, apiVars>>

\* variant: a failed refresh ends the call with the error
RefreshOutcome_Raise(refresh_ok) == IF refresh_ok THEN "ok" ELSE "error"

\* etl.py:1571-1625: every refresh step is wrapped in try / except that
\* logs and goes on; the call returns inserted either way
RefreshOutcome(refresh_ok) == IF refresh_ok THEN "ok" ELSE "ok_refresh_failed"

\* etl.py:1570-1625: cache clear, KPI and materialized-view refresh (best
\* effort: a failure is logged and swallowed), return inserted
RefreshAndReturn(p) ==
    /\ pc[p] = "refresh"
    /\ \E refresh_ok \in BOOLEAN :
          load_result' = [load_result EXCEPT ![p] = RefreshOutcome(refresh_ok)]
    /\ pc' = [pc EXCEPT ![p] = "idle"]
    /\ UNCHANGED <<staging, uploads, facts, enriched, merchant_rules, rows, idx, inserted,
                   session, runs, insert_err, manual_ops>>
    /\ UNCHANGED <<batchVars, rulesVars, syncVars, parseVars, apiVars>>

\* ------------------------------------------------------------------------
\* Manual transaction API (transactions.py)
\* ------------------------------------------------------------------------
\* the users of the API
ApiUsers == {"u1", "u2"}

\* the response of a request: status code and the rows it returns
NoApiResponse == [op |-> "none", user |-> NULL, batch_id |-> NULL, txn_id |-> <<>>, file |-> NULL,
                  code |-> 0, success |-> FALSE, imported |-> 0, errors |-> 0,
                  facts_out |-> {}, rows_out |-> {}, batch_out |-> <<>>]

ApiResponse(op, user, code) == [NoApiResponse EXCEPT !.op = op, !.user = user, !.code = code]

TxnResponse(op, user, txn_id, code, out) ==
    [ApiResponse(op, user, code) EXCEPT !.txn_id = txn_id, !.facts_out = out]

ApiVarsInit ==
    /\ api_response = NoApiResponse
    /\ api_calls = 0

\* variant: the fact is looked up by its id alone
OwnsTxn_AnyUser(user_id, txn_id) == \E f \in facts : f.txn_id = txn_id

\* transactions.py:892, 909, 988: filter(TxnFact.txn_id == ..., TxnFact.user_id == uid)
OwnsTxn(user_id, txn_id) == \E f \in facts : f.txn_id = txn_id /\ f.user_id = user_id

\* transactions.py:632-668: <<ok, category_code, subcategory_code>>
_ensure_category_pair(category_code, subcategory_code) ==
    LET subs == {d \in DimSubcategory : d.subcategory_code = subcategory_code}
    IN IF category_code = NULL /\ subcategory_code = NULL THEN <<TRUE, NULL, NULL>>
       ELSE IF category_code # NULL /\ category_code \notin DimCategory THEN <<FALSE, NULL, NULL>>
       ELSE IF subcategory_code # NULL /\ subs = {} THEN <<FALSE, NULL, NULL>>
       ELSE IF subcategory_code # NULL /\ category_code # NULL
               /\ (CHOOSE d \in subs : TRUE).category_code # category_code
            THEN <<FALSE, NULL, NULL>>
       ELSE IF subcategory_code # NULL /\ category_code = NULL
            THEN <<TRUE, (CHOOSE d \in subs : TRUE).category_code, subcategory_code>>
       ELSE <<TRUE, category_code, subcategory_code>>

\* transactions.py:626-630
_direction_from_type(t) == IF t = "credit" THEN "credit" ELSE "debit"

CreatePayloads == {
    [amount |-> 450, day |-> 15, description |-> "SWIGGY ORDER", merchant |-> "swiggy order",
     bank |-> NULL, category |-> "nightlife", subcategory |-> NULL, transaction_type |-> "debit"],
    [amount |-> 1450, day |-> 16, description |-> "ACME SALARY", merchant |-> NULL,
     bank |-> NULL, category |-> NULL, subcategory |-> NULL, transaction_type |-> "credit"]
  }

UpdatePayloads == {
    [category |-> "shopping", subcategory |-> NULL, description |-> NULL, merchant |-> NULL],
    [category |-> NULL, subcategory |-> "online_shopping", description |-> NULL, merchant |-> NULL],
    [category |-> "nightlife", subcategory |-> "online_shopping", description |-> NULL,
     merchant |-> NULL],
    [category |-> NULL, subcategory |-> NULL, description |-> NULL, merchant |-> NULL]
  }

\* payloads that also change scalar fields of the fact
EditPayloads == {
    [category |-> "shopping", subcategory |-> NULL, description |-> NULL, merchant |-> NULL],
    [category |-> NULL, subcategory |-> NULL, description |-> "AMAZON REFUND", merchant |-> NULL],
    [category |-> NULL, subcategory |-> NULL, description |-> NULL, merchant |-> "swiggy"]
  }

\* transactions.py:702-816
create_transaction(user_id, payload) ==
    /\ manual_ops < MaxManual
    /\ manual_ops' = manual_ops + 1
    /\ LET pair == _ensure_category_pair(payload.category, payload.subcategory)
           direction == _direction_from_type(payload.transaction_type)
           fp == fn_txn_fact_fp(user_id, payload.day, payload.amount, direction,
                                payload.description,
                                IF payload.merchant = NULL THEN "" ELSE payload.merchant,
                                IF payload.bank = NULL THEN "" ELSE payload.bank)
           txn == [txn_id |-> <<"manual", manual_ops + 1, 0>>, user_id |-> user_id,
                   upload_id |-> "manual", source_type |-> "manual", txn_date |-> payload.day,
                   description |-> payload.description, amount |-> payload.amount,
                   direction |-> direction, merchant_name_norm |-> payload.merchant,
                   account_ref |-> payload.bank, dedupe_fp |-> fp]
       IN /\ \A q \in Loaders : \A f \in session[q].facts : f.dedupe_fp # fp
          /\ IF ~pair[1] \/ (\E f \in facts : f.dedupe_fp = fp)
             THEN UNCHANGED <<facts, enriched>>
             ELSE /\ facts' = facts \cup {txn}
                  /\ enriched' = IF pair[2] # NULL \/ pair[3] # NULL
                                 THEN enriched \cup {[txn_id |-> txn.txn_id,
                                                      category_code |-> pair[2],
                                                      subcategory_code |-> pair[3],
                                                      rule_confidence |-> ManualCreateConfidence]}
                                 ELSE enriched
    /\ UNCHANGED <<staging, uploads, merchant_rules, pc, rows, idx, inserted, session, runs,
                   load_result, insert_err>>
    /\ UNCHANGED <<batchVars, rulesVars, syncVars, parseVars, apiVars>>

\* app.services.learning_service.learn_from_edit: create or update the
\* user's merchant rule for this merchant
learn_from_edit(rules, merchant_name, description, category_code, subcategory_code) ==
    LET pattern == normalize_merchant_name(IF merchant_name # NULL THEN merchant_name ELSE description)
    IN {r \in rules : r.pattern # pattern}
       \cup {[pattern |-> pattern, category_code |-> category_code,
              subcategory_code |-> subcategory_code, merchant_name_norm |-> NULL,
              learned |-> TRUE]}

\* transactions.py:923-941: upsert of the enrichment row of a manual edit
UpsertEnriched(enr, txn_id, cat_code, subcat_code) ==
    {e \in enr : e.txn_id # txn_id}
    \cup {[txn_id |-> txn_id, category_code |-> cat_code, subcategory_code |-> subcat_code,
           rule_confidence |-> ManualEditConfidence]}

\* transactions.py:913-921: the scalar updates; dedupe_fp is not among them
ApplyScalarUpdates(f, payload) ==
    [f EXCEPT !.description = IF payload.description # NULL THEN payload.description ELSE @,
              !.merchant_name_norm = IF payload.merchant = NULL THEN @
                                     ELSE IF payload.merchant = "" THEN NULL
                                     ELSE payload.merchant]

\* transactions.py:904-977
update_transaction(user_id, txn_id, payload) ==
    /\ manual_ops < MaxManual
    /\ manual_ops' = manual_ops + 1
    /\ IF ~OwnsTxn(user_id, txn_id)
       THEN \* transactions.py:910-911: 404 "Transaction not found"
            /\ api_response' = TxnResponse("update_transaction", user_id, txn_id, 404, {})
            /\ UNCHANGED <<facts, enriched, merchant_rules>>
       ELSE LET before == CHOOSE f \in facts : f.txn_id = txn_id
                pair == _ensure_category_pair(payload.category, payload.subcategory)
                edits == payload.category # NULL \/ payload.subcategory # NULL
                f == IF edits /\ ~pair[1] THEN before ELSE ApplyScalarUpdates(before, payload)
            IN /\ facts' = (facts \ {before}) \cup {f}
               /\ enriched' = IF edits /\ pair[1]
                              THEN UpsertEnriched(enriched, txn_id, pair[2], pair[3])
                              ELSE enriched
               /\ api_response' = TxnResponse("update_transaction", user_id, txn_id,
                                              IF edits /\ ~pair[1] THEN 400 ELSE 200,
                                              IF edits /\ ~pair[1] THEN {} ELSE {f})
               /\ \E learn_ok \in BOOLEAN :
                     merchant_rules' =
                         IF learn_ok /\ pair[1] /\ pair[2] # NULL
                            /\ (f.merchant_name_norm # NULL \/ f.description # NULL)
                         THEN learn_from_edit(merchant_rules, f.merchant_name_norm, f.description,
                                              pair[2], pair[3])
                         ELSE merchant_rules
    /\ UNCHANGED <<staging, uploads, pc, rows, idx, inserted, session, runs, load_result,
                   insert_err, api_calls>>
    /\ UNCHANGED <<batchVars, rulesVars, syncVars, parseVars>>

\* transactions.py:984-996: session.delete(f); commit.  The enrichment row
\* goes with its fact (cascade), or the foreign key refuses the delete and
\* nothing is deleted
delete_transaction(user_id, txn_id) ==
    /\ manual_ops < MaxManual
    /\ manual_ops' = manual_ops + 1
    /\ IF ~OwnsTxn(user_id, txn_id)
       THEN \* transactions.py:989-990: 404 "Transaction not found"
            /\ api_response' = TxnResponse("delete_transaction", user_id, txn_id, 404, {})
            /\ UNCHANGED <<facts, enriched>>
       ELSE \E cascade \in BOOLEAN :
               IF cascade \/ ~\E e \in enriched : e.txn_id = txn_id
               THEN /\ facts' = {f \in facts : f.txn_id # txn_id}
                    /\ enriched' = {e \in enriched : e.txn_id # txn_id}
                    /\ api_response' = TxnResponse("delete_transaction", user_id, txn_id, 204, {})
               ELSE /\ UNCHANGED <<facts, enriched>>
                    /\ api_response' = TxnResponse("delete_transaction", user_id, txn_id, 500, {})
    /\ UNCHANGED <<staging, uploads, merchant_rules, pc, rows, idx, inserted, session, runs,
                   load_result, insert_err, api_calls>>
    /\ UNCHANGED <<batchVars, rulesVars, syncVars, parseVars>>

\* transactions.py:887-898
get_transaction(user_id, txn_id) ==
    /\ api_response' =
          IF OwnsTxn(user_id, txn_id)
          THEN TxnResponse("get_transaction", user_id, txn_id, 200,
                           {CHOOSE f \in facts : f.txn_id = txn_id})
          ELSE TxnResponse("get_transaction", user_id, txn_id, 404, {})
    /\ UNCHANGED <<loadVars, batchVars, rulesVars, syncVars, parseVars, api_calls>>

\* ------------------------------------------------------------------------
\* bulk import (transactions.py:334-619)
\* ------------------------------------------------------------------------
BulkRow(description, amount, transaction_type, category) ==
    [description |-> description, amount |-> amount, day |-> 15,
     transaction_type |-> transaction_type, category |-> category, subcategory |-> NULL,
     merchant |-> NULL, bank |-> NULL]

RowSwiggy == BulkRow("SWIGGY ORDER", 450, "debit", "nightlife")

RowSalary == BulkRow("ACME SALARY", 1450, "credit", NULL)

RowRefund == BulkRow("AMAZON REFUND", 200, "credit", "shopping")

\* the uploaded files, as the data rows pandas reads from them
BulkFiles == {
    [name |-> "two_good.csv", rows |-> <<RowSwiggy, RowSalary>>],
    [name |-> "bad_amount.csv", rows |-> <<RowSwiggy, BulkRow("ACME SALARY", 0, "credit", NULL)>>],
    [name |-> "bad_category.csv",
     rows |-> <<BulkRow("SWIGGY ORDER", 450, "debit", "no_such_category"), RowSalary>>],
    [name |-> "bad_type.csv", rows |-> <<RowSalary, BulkRow("AMAZON REFUND", 200, "refund", NULL)>>],
    [name |-> "no_description.csv", rows |-> <<BulkRow("", 450, "debit", NULL)>>],
    [name |-> "repeat.csv", rows |-> <<RowRefund, RowRefund, RowSwiggy>>],
    [name |-> "repeat_last.csv", rows |-> <<RowSwiggy, RowSalary, RowSalary>>]
  }

\* transactions.py:410-486: the checks of one row in the validation loop
RowValid(r) ==
    /\ r.description # ""
    /\ r.amount > 0
    /\ r.transaction_type \in {"debit", "credit"}
    /\ _ensure_category_pair(r.category, r.subcategory)[1]

\* the errors list: the rows that failed a check
RowErrors(file_rows) == {i \in 1..Len(file_rows) : ~RowValid(file_rows[i])}

\* the session of the import phase: what it has flushed, whether a statement
\* has failed in its transaction, whether an exception has left the loop
EmptyImport == [facts |-> {}, enriched |-> {}, aborted |-> FALSE, raised |-> FALSE]

\* transactions.py:538-567: the TxnFact and TxnEnriched rows of one file row;
\* the fingerprint is the one the UPDATE of 571-587 stores
BulkTxn(user_id, call, i, r) ==
    LET direction == _direction_from_type(r.transaction_type)
    IN [txn_id |-> <<"bulk", call, i>>, user_id |-> user_id, upload_id |-> "manual",
        source_type |-> "manual", txn_date |-> r.day, description |-> r.description,
        amount |-> r.amount, direction |-> direction, merchant_name_norm |-> r.merchant,
        account_ref |-> r.bank,
        dedupe_fp |-> fn_txn_fact_fp(user_id, r.day, r.amount, direction, r.description,
                                     IF r.merchant = NULL THEN "" ELSE r.merchant,
                                     IF r.bank = NULL THEN "" ELSE r.bank)]

BulkEnriched(txn, r) ==
    LET pair == _ensure_category_pair(r.category, r.subcategory)
    IN IF pair[2] # NULL \/ pair[3] # NULL
       THEN {[txn_id |-> txn.txn_id, category_code |-> pair[2], subcategory_code |-> pair[3],
              rule_confidence |-> ManualCreateConfidence]}
       ELSE {}

\* transactions.py:537-592: the import loop from row i on.  A fingerprint
\* UPDATE that hits the unique index is swallowed (588-589) and leaves the
\* transaction aborted; the next flush in an aborted transaction raises
RECURSIVE import_rows(_, _, _, _, _)
import_rows(user_id, call, file_rows, i, sess) ==
    IF i > Len(file_rows) THEN sess
    ELSE IF sess.aborted THEN [sess EXCEPT !.raised = TRUE]
    ELSE LET txn == BulkTxn(user_id, call, i, file_rows[i])
             taken == \E f \in facts \cup sess.facts : f.dedupe_fp = txn.dedupe_fp
         IN import_rows(user_id, call, file_rows, i + 1,
                        [sess EXCEPT !.facts = @ \cup {txn},
                                     !.enriched = @ \cup BulkEnriched(txn, file_rows[i]),
                                     !.aborted = taken])

\* variant: what was flushed before the failure stays
ImportRollback_KeepFlushed(sess) == sess

\* transactions.py:611-616: session.rollback()
ImportRollback(sess) == [sess EXCEPT !.facts = {}, !.enriched = {}]

BulkResponse(user, file, code, success, imported, errors) ==
    [ApiResponse("bulk_import_transactions", user, code) EXCEPT
         !.file = file.name, !.success = success, !.imported = imported, !.errors = errors]

\* transactions.py:334-619
bulk_import_transactions(user_id, file) ==
    /\ api_calls < MaxApiCalls
    /\ api_calls' = api_calls + 1
    /\ LET n == Len(file.rows)
           errors == RowErrors(file.rows)
           sess == import_rows(user_id, api_calls + 1, file.rows, 1, EmptyImport)
       IN IF errors # {}
          THEN \* transactions.py:506-513: nothing is imported
               /\ api_response' = BulkResponse(user_id, file, 200, FALSE, 0, Cardinality(errors))
               /\ UNCHANGED <<facts, enriched>>
          ELSE IF sess.raised
          THEN \* transactions.py:614-616
               /\ facts' = facts \cup ImportRollback(sess).facts
               /\ enriched' = enriched \cup ImportRollback(sess).enriched
               /\ api_response' = BulkResponse(user_id, file, 500, FALSE, 0, 0)
          ELSE IF sess.aborted
          THEN \* transactions.py:593: the commit of an aborted transaction
               \* stores nothing; it raises when rows are still to be flushed,
               \* and returns when the server answers COMMIT with a rollback
               \E commit_raises \in BOOLEAN :
                  /\ facts' = facts \cup ImportRollback(sess).facts
                  /\ enriched' = enriched \cup ImportRollback(sess).enriched
                  /\ api_response' = IF commit_raises
                                     THEN BulkResponse(user_id, file, 500, FALSE, 0, 0)
                                     ELSE BulkResponse(user_id, file, 200, TRUE, n, 0)
          ELSE /\ facts' = facts \cup sess.facts
               /\ enriched' = enriched \cup sess.enriched
               /\ api_response' = BulkResponse(user_id, file, 200, TRUE, n, 0)
    /\ UNCHANGED <<staging, uploads, merchant_rules, pc, rows, idx, inserted, session, runs,
                   load_result, insert_err, manual_ops>>
    /\ UNCHANGED <<batchVars, rulesVars, syncVars, parseVars>>

\* rows that reach the merchant_rules table after a load: a learned rule for
\* a merchant whose merchant_name_norm is not the row's normalized merchant
\* (the value _extract_and_categorize prefers, etl.py:1234)
LearnedRuleChanges == {
    [pattern |-> "swiggy order", category_code |-> "nightlife",
     subcategory_code |-> "food_delivery", merchant_name_norm |-> "swiggy", learned |-> TRUE]
  }

\* one change of the merchant-rule table, between two loads (a run reads
\* the rules through the client's cache, cleared at the end of a load)
LearnedRuleChange(rule) ==
    /\ rule \notin merchant_rules
    /\ \A p \in Loaders : pc[p] = "idle"
    /\ merchant_rules' = {r \in merchant_rules : r.pattern # rule.pattern} \cup {rule}
    /\ UNCHANGED <<staging, uploads, facts, enriched, pc, rows, idx, inserted, session, runs,
                   load_result, insert_err, manual_ops>>
    /\ UNCHANGED <<batchVars, rulesVars, syncVars, parseVars, apiVars>>

\* ------------------------------------------------------------------------
\* detect_bank_and_parse.py: the parsers behind parse_file_task
\* ------------------------------------------------------------------------
\* datetime.now().date() at the time of the run (a day number)
Today == 17

\* the bank names that occur in the text of a PDF / in the headers of a sheet
BankWords(doc) ==
    CASE doc.id = "hdfc.pdf" -> {"hdfc"}
      [] OTHER -> {}

\* detect_bank_and_parse.py:42-53 and 122-133
detect_bank(words) ==
    IF "hdfc" \in words THEN "HDFC"
    ELSE IF "icici" \in words THEN "ICICI"
    ELSE IF {"state bank", "sbi"} \cap words # {} THEN "SBI"
    ELSE IF {"axis bank", "axis"} \cap words # {} THEN "AXIS"
    ELSE "UNKNOWN"

\* pattern.search on a text line made of two source lines: the leftmost match
JoinLines(a, b) == IF a.m THEN a ELSE b

\* detect_bank_and_parse.py:30-39: the page texts are concatenated with no
\* separator, so the last line of a page runs into the first of the next
RECURSIVE extract_pdf_text(_)
extract_pdf_text(pages) ==
    IF pages = <<>> THEN <<>>
    ELSE LET head == Head(pages)
             rest == extract_pdf_text(Tail(pages))
         IN IF head = <<>> THEN rest
            ELSE IF rest = <<>> THEN head
            ELSE SubSeq(head, 1, Len(head) - 1)
                 \o <<JoinLines(head[Len(head)], Head(rest))>> \o Tail(rest)

\* detect_bank_and_parse.py:72-105: the records one text line contributes
parse_pdf_line_by_bank(bank, line) ==
    IF ~line.m THEN <<>>
    ELSE LET d1 == strptime(line.date, "%d/%m/%Y")
             d2 == strptime(line.date, "%d-%m-%Y")
             txn_date == IF d1 # None THEN d1 ELSE d2
             amount == float(replace_comma(line.amount))
             dc == upper(line.dc)
         IN IF txn_date = None THEN <<>>
            ELSE IF amount = None THEN <<>>
            ELSE << [bank_code |-> bank, txn_date |-> txn_date[1], description |-> line.desc,
                     amount |-> amount[1],
                     direction |-> IF dc \in {"DR", "DEBIT"} THEN "DEBIT" ELSE "CREDIT",
                     channel |-> "PDF"] >>

RECURSIVE parse_pdf_lines_by_bank(_, _)
parse_pdf_lines_by_bank(bank, lines) ==
    IF lines = <<>> THEN <<>>
    ELSE parse_pdf_line_by_bank(bank, Head(lines)) \o parse_pdf_lines_by_bank(bank, Tail(lines))

\* detect_bank_and_parse.py:56-118
parse_pdf_by_bank(bank, pages) ==
    LET results == parse_pdf_lines_by_bank(bank, extract_pdf_text(pages))
    IN IF results # <<>> THEN results
       ELSE << [bank_code |-> bank, txn_date |-> Today, description |-> "Sample PDF Transaction",
                amount |-> 0, direction |-> "DEBIT", channel |-> "PDF"] >>

\* detect_bank_and_parse.py:157-183: column detection, in column order
RECURSIVE DetectColumns(_, _)
DetectColumns(columns, acc) ==
    IF columns = <<>> THEN acc
    ELSE LET col == Head(columns)
             w == ColWords(col)
             a1 == IF acc.date_col = NULL /\ "date" \in w THEN [acc EXCEPT !.date_col = col] ELSE acc
             a2 == IF a1.desc_col = NULL
                      /\ {"desc", "narration", "particulars", "details", "remarks", "transaction"} \cap w # {}
                   THEN [a1 EXCEPT !.desc_col = col] ELSE a1
             a3 == IF "withdrawal" \in w \/ ("debit" \in w /\ "amount" \in w)
                   THEN [a2 EXCEPT !.debit_col = col]
                   ELSE IF "deposit" \in w \/ ("credit" \in w /\ "amount" \in w)
                   THEN [a2 EXCEPT !.credit_col = col]
                   ELSE IF "amount" \in w /\ a2.amount_col = NULL
                   THEN [a2 EXCEPT !.amount_col = col]
                   ELSE a2
         IN DetectColumns(Tail(columns), a3)

NoColumns == [date_col |-> NULL, desc_col |-> NULL, amount_col |-> NULL, debit_col |-> NULL,
              credit_col |-> NULL]

\* float(val) of a cell: the number, or None when it raises
CellFloat(val) == IF val.t = "num" THEN Some(val.v) ELSE IF val.t = "nan" THEN None ELSE float(val.s)

\* detect_bank_and_parse.py:194-209: the date of a row
ExcelRowDate(val) ==
    IF isna(val) THEN None
    ELSE IF val.t = "num" THEN Some(val.v)
    ELSE IF strptime(val.s, "%d/%m/%Y") # None THEN strptime(val.s, "%d/%m/%Y")
    ELSE IF strptime(val.s, "%Y-%m-%d") # None THEN strptime(val.s, "%Y-%m-%d")
    ELSE IF strptime(val.s, "%d-%m-%Y") # None THEN strptime(val.s, "%d-%m-%Y")
    ELSE IF strptime(val.s, "%d-%b-%Y") # None THEN strptime(val.s, "%d-%b-%Y")
    ELSE strptime(val.s, "%d/%m/%y")

\* detect_bank_and_parse.py:222-257: <<amount, direction>> of a row, or None
ExcelRowAmount(c, columns, cells) ==
    IF c.debit_col # NULL /\ c.credit_col # NULL
    THEN LET debit_val == RowGet(columns, cells, c.debit_col)
             credit_val == RowGet(columns, cells, c.credit_col)
         IN IF ~isna(debit_val) /\ CellFloat(debit_val) = None THEN None
            ELSE IF ~isna(debit_val) /\ CellFloat(debit_val)[1] > 0
            THEN Some(<<Abs(CellFloat(debit_val)[1]), "DEBIT">>)
            ELSE IF ~isna(credit_val) /\ CellFloat(credit_val) = None THEN None
            ELSE IF ~isna(credit_val) /\ CellFloat(credit_val)[1] > 0
            THEN Some(<<Abs(CellFloat(credit_val)[1]), "CREDIT">>)
            ELSE None
    ELSE IF c.amount_col # NULL
    THEN LET amount_val == RowGet(columns, cells, c.amount_col)
         IN IF isna(amount_val) \/ CellFloat(amount_val) = None THEN None
            ELSE IF CellFloat(amount_val)[1] = 0 THEN None
            ELSE Some(<<Abs(CellFloat(amount_val)[1]),
                        IF CellFloat(amount_val)[1] >= 0 THEN "CREDIT" ELSE "DEBIT">>)
    ELSE None

\* detect_bank_and_parse.py:192-294: the records one sheet row contributes
parse_excel_row(bank, c, columns, cells) ==
    LET txn_date == IF c.date_col = NULL THEN None
                    ELSE ExcelRowDate(RowGet(columns, cells, c.date_col))
        desc_val == IF c.desc_col = NULL THEN Str("") ELSE RowGet(columns, cells, c.desc_col)
        description == IF desc_val.t = "num" THEN "number" ELSE desc_val.s
        money == ExcelRowAmount(c, columns, cells)
    IN IF txn_date = None THEN <<>>
       ELSE IF lower(description) \in {"nan", "none", ""} THEN <<>>
       ELSE IF money = None THEN <<>>
       ELSE << [bank_code |-> bank, txn_date |-> txn_date[1], description |-> description,
                amount |-> money[1][1], direction |-> money[1][2], channel |-> "EXCEL"] >>

RECURSIVE parse_excel_rows(_, _, _, _)
parse_excel_rows(bank, c, columns, rows_) ==
    IF rows_ = <<>> THEN <<>>
    ELSE parse_excel_row(bank, c, columns, Head(rows_))
         \o parse_excel_rows(bank, c, columns, Tail(rows_))

\* detect_bank_and_parse.py:136-297
parse_excel_csv_by_bank(bank, columns, rows_) ==
    parse_excel_rows(bank, DetectColumns(columns, NoColumns), columns, rows_)

\* the extension of the stored file (etl_router.py:31)
Ext(doc) == IF doc.kind = "pdf" THEN ".pdf" ELSE ".xlsx"

\* detect_bank_and_parse.py:9-26 (the file opens and reads)
detect_bank_and_parse(doc) ==
    IF Ext(doc) = ".pdf"
    THEN parse_pdf_by_bank(detect_bank(BankWords(doc)), doc.pages)
    ELSE parse_excel_csv_by_bank(detect_bank(BankWords(doc)), doc.columns, doc.rows)

\* ------------------------------------------------------------------------
\* categorizer_new.py: categorize_transaction
\* ------------------------------------------------------------------------
\* the keys of KEYWORD_MAP and of the pattern lists that occur in a description
CatKeys(desc) ==
    CASE desc = "swiggy order"  -> {"swiggy"}
      [] desc = "amazon refund" -> {"amazon", "refund"}
      [] desc = "interest"      -> {"interest"}
      [] desc = "upi ravi kumar" -> {"upi"}
      [] desc = "swiggy payment"           -> {"swiggy"}
      [] desc = "uber eats order"          -> {"uber eats", "uber"}
      [] desc = "uber eats"                -> {"uber eats", "uber"}
      [] desc = "uber ride"                -> {"uber"}
      [] desc = "amazon prime renewal"     -> {"amazon prime", "amazon"}
      [] desc = "amazon prime"             -> {"amazon prime", "amazon"}
      [] desc = "amazon shopping"          -> {"amazon", "shopping"}
      [] desc = "gas bill payment"         -> {"gas bill", "gas"}
      [] desc = "gas bill"                 -> {"gas bill", "gas"}
      [] desc = "indane gas"               -> {"gas"}
      [] desc = "home loan emi"            -> {"home loan", "emi", "loan", "home"}
      [] desc = "home loan repayment"      -> {"home loan", "loan", "home"}
      [] desc = "home loan"                -> {"home loan", "loan", "home"}
      [] desc = "loan account"             -> {"loan account", "loan"}
      [] desc = "health insurance premium" -> {"health insurance", "insurance", "premium", "emi"}
      [] desc = "health insurance"         -> {"health insurance", "insurance"}
      [] desc = "car insurance"            -> {"insurance", "car"}
      [] desc = "policy renewal"           -> {"lic"}
      [] desc = "credit card payment"      -> {"credit card payment", "credit card", "card payment"}
      [] desc = "disney+ hotstar"          -> {"disney+ hotstar", "hotstar"}
      [] desc = "overdue installment"      -> {"installment", "due"}
      [] desc \in {"swiggy", "uber", "amazon", "gas", "emi", "insurance", "lic", "credit card",
                   "hotstar", "upi", "refund"} -> {desc}
      [] OTHER -> {}

\* categorizer_new.py:7-101: KEYWORD_MAP in dict order (keys of the texts above)
KEYWORD_MAP == <<
    [key |-> "swiggy",   cat |-> "FOOD_AND_DINING", subcat |-> "ONLINE_FOOD"],
    [key |-> "uber eats", cat |-> "FOOD_AND_DINING", subcat |-> "ONLINE_FOOD"],
    [key |-> "hotstar",  cat |-> "ENTERTAINMENT",   subcat |-> "OTT_SUBSCRIPTION"],
    [key |-> "disney+ hotstar", cat |-> "ENTERTAINMENT", subcat |-> "OTT_SUBSCRIPTION"],
    [key |-> "amazon prime", cat |-> "ENTERTAINMENT", subcat |-> "OTT_SUBSCRIPTION"],
    [key |-> "uber",     cat |-> "TRAVEL",          subcat |-> "CAB"],
    [key |-> "gas",      cat |-> "TRANSPORT",       subcat |-> "FUEL"],
    [key |-> "amazon",   cat |-> "SHOPPING",        subcat |-> "ONLINE_SHOPPING"],
    [key |-> "gas bill", cat |-> "UTILITIES",       subcat |-> "GAS"],
    [key |-> "upi",      cat |-> "TRANSFER",        subcat |-> "UPI_PAYMENT"],
    [key |-> "interest", cat |-> "INCOME",          subcat |-> "INTEREST"],
    [key |-> "refund",   cat |-> "INCOME",          subcat |-> "REFUND"],
    [key |-> "emi",      cat |-> "LOAN_EMI",        subcat |-> "GENERIC_LOAN"],
    [key |-> "loan account", cat |-> "LOAN_EMI",    subcat |-> "GENERIC_LOAN"],
    [key |-> "home loan", cat |-> "LOAN_EMI",       subcat |-> "HOME_LOAN"],
    [key |-> "credit card payment", cat |-> "DEBT", subcat |-> "CREDIT_CARD_PAYMENT"],
    [key |-> "credit card", cat |-> "DEBT",         subcat |-> "CREDIT_CARD_PAYMENT"],
    [key |-> "insurance", cat |-> "INSURANCE",      subcat |-> "GENERAL"],
    [key |-> "lic",      cat |-> "INSURANCE",       subcat |-> "LIFE_INSURANCE"],
    [key |-> "health insurance", cat |-> "INSURANCE", subcat |-> "HEALTH_INSURANCE"] >>

\* categorizer_new.py:104-206: <<category, subcategory, confidence (percent)>>
categorize_transaction(description) ==
    LET desc == lower(description)
        hits == {i \in 1..Len(KEYWORD_MAP) : KEYWORD_MAP[i].key \in CatKeys(desc)}
    IN IF hits # {}
       THEN LET i == CHOOSE i \in hits : \A j \in hits : i <= j
            IN <<KEYWORD_MAP[i].cat, KEYWORD_MAP[i].subcat, 90>>
       ELSE IF {"emi", "loan", "installment", "due"} \cap CatKeys(desc) # {}
       THEN IF "home" \in CatKeys(desc) THEN <<"LOAN_EMI", "HOME_LOAN", 85>>
            ELSE IF "car" \in CatKeys(desc) THEN <<"LOAN_EMI", "CAR_LOAN", 85>>
            ELSE <<"LOAN_EMI", "GENERIC_LOAN", 80>>
       ELSE IF {"shopping", "mall", "store"} \cap CatKeys(desc) # {}
       THEN <<"SHOPPING", "RETAIL", 70>>
       ELSE IF {"upi", "neft", "imps", "rtgs", "transfer"} \cap CatKeys(desc) # {}
       THEN <<"TRANSFER", "BANK_TRANSFER", 75>>
       ELSE <<"OTHER", "UNCATEGORIZED", 10>>

\* ------------------------------------------------------------------------
\* ETL batches and the Celery tasks (etl_router.py, etl_tasks.py)
\* ------------------------------------------------------------------------
BatchIds == {"b1", "b2"}

Workers == {"w1", "w2"}

AbsentBatch == [status |-> "absent", user_id |-> NULL, source |-> NULL, file |-> NULL,
                total_records |-> 0, valid_records |-> 0, processed_records |-> 0,
                error_message |-> NULL]

DocById(id) == CHOOSE doc \in Documents : doc.id = id

Msg(task, b) == [task |-> task, batch_id |-> b]

\* one StagedTransaction row (etl_tasks.py:47-61)
StagedTransaction(b, seq, i, r) ==
    [id |-> <<b, seq, i>>, batch_id |-> b, txn_date |-> r.txn_date, description |-> r.description,
     amount |-> r.amount, direction |-> r.direction, bank_code |-> r.bank_code,
     channel |-> r.channel, category |-> NULL, subcategory |-> NULL, category_confidence |-> 0]

\* the response of an upload request that has not been made
NoUpload == [path |-> "none", cause |-> "none", http |-> 0, batch_status |-> "absent"]

UploadResult(path, cause, http, batch_status) ==
    [path |-> path, cause |-> cause, http |-> http, batch_status |-> batch_status]

\* etl_router.py:22-83: store the file, create the batch, dispatch the task
\* with send_task; when send_task raises, parse_file_task is called
\* in-process, and what it raises becomes a 500 response
etl_upload_file(user_id, b, doc) ==
    /\ etl_batch[b].status = "absent"
    /\ LET created == [AbsentBatch EXCEPT !.status = "pending", !.user_id = user_id,
                                          !.source = "file", !.file = doc.id]
           records == detect_bank_and_parse(doc)
           parsed == [created EXCEPT !.total_records = Len(records),
                                     !.valid_records = Len(records), !.status = "parsed"]
           failed == [parsed EXCEPT !.status = "failed", !.error_message = "error"]
           rows_ == {StagedTransaction(b, stage_seq + 1, i, records[i]) : i \in 1..Len(records)}
       IN \E outcome \in {"sent", "unreadable", "stage_commit_raises", "delay_raises", "ok"} :
             CASE outcome = "sent" ->
                    /\ etl_batch' = [etl_batch EXCEPT ![b] = created]
                    /\ queue' = queue \cup {Msg("parse_file_task", b)}
                    /\ upload_result' = [upload_result EXCEPT ![b] =
                                             UploadResult("worker", "none", 200, "pending")]
                    /\ UNCHANGED <<staged, stage_seq, task_exc>>
               [] outcome = "unreadable" ->
                    \* detect_bank_and_parse raises (etl_tasks.py:38, 70-76)
                    /\ etl_batch' = [etl_batch EXCEPT ![b] =
                                        [created EXCEPT !.status = "failed", !.error_message = "error"]]
                    /\ upload_result' = [upload_result EXCEPT ![b] =
                                             UploadResult("sync", "data", 500, "failed")]
                    /\ task_exc' = [task_exc EXCEPT ![b] = "raised"]
                    /\ UNCHANGED <<staged, stage_seq, queue>>
               [] outcome = "stage_commit_raises" ->
                    \* session.commit() of the staged rows raises (etl_tasks.py:64)
                    /\ \E persisted \in BOOLEAN :
                          /\ etl_batch' = [etl_batch EXCEPT ![b] = IF persisted THEN failed ELSE parsed]
                          /\ upload_result' = [upload_result EXCEPT ![b] =
                                UploadResult("sync", "db", 500, IF persisted THEN "failed" ELSE "parsed")]
                    /\ task_exc' = [task_exc EXCEPT ![b] = "raised"]
                    /\ UNCHANGED <<staged, stage_seq, queue>>
               [] outcome = "delay_raises" ->
                    \* categorize_transactions_task.delay raises: the broker is
                    \* still unavailable (etl_tasks.py:68, 70-76)
                    /\ etl_batch' = [etl_batch EXCEPT ![b] = failed]
                    /\ staged' = staged \cup rows_
                    /\ stage_seq' = stage_seq + 1
                    /\ upload_result' = [upload_result EXCEPT ![b] =
                                             UploadResult("sync", "broker", 500, "failed")]
                    /\ task_exc' = [task_exc EXCEPT ![b] = "raised"]
                    /\ queue' = queue
               [] OTHER ->
                    \* the broker is back when the categorization is triggered
                    /\ etl_batch' = [etl_batch EXCEPT ![b] = parsed]
                    /\ staged' = staged \cup rows_
                    /\ stage_seq' = stage_seq + 1
                    /\ queue' = queue \cup {Msg("categorize_transactions_task", b)}
                    /\ upload_result' = [upload_result EXCEPT ![b] =
                                             UploadResult("sync", "none", 200, "parsed")]
                    /\ task_exc' = [task_exc EXCEPT ![b] = "returned"]
    /\ UNCHANGED <<worker, delivered, redelivered, gmail_active>>
    /\ UNCHANGED <<loadVars, rulesVars, syncVars, parseVars, apiVars>>

\* etl_router.py:178-233
trigger_gmail_etl(user_id, b) ==
    /\ etl_batch[b].status = "absent"
    /\ gmail_active
    /\ etl_batch' = [etl_batch EXCEPT ![b] = [AbsentBatch EXCEPT !.status = "pending",
                                                               !.user_id = user_id,
                                                               !.source = "gmail"]]
    /\ queue' = queue \cup {Msg("parse_gmail_task", b)}
    /\ UNCHANGED <<staged, worker, delivered, redelivered, stage_seq, gmail_active, task_exc,
                   upload_result>>
    /\ UNCHANGED <<loadVars, rulesVars, syncVars, parseVars, apiVars>>

\* etl_models.py:71: the account row is switched off
GmailAccountDeactivated ==
    /\ gmail_active
    /\ gmail_active' = FALSE
    /\ UNCHANGED <<etl_batch, staged, queue, worker, delivered, redelivered, stage_seq, task_exc,
                   upload_result>>
    /\ UNCHANGED <<loadVars, rulesVars, syncVars, parseVars, apiVars>>

\* the broker delivers a message a worker has already taken once more
Redeliver(m) ==
    /\ m \in delivered
    /\ m \notin queue
    /\ Cardinality(redelivered) < MaxRedeliver
    /\ redelivered' = redelivered \cup {m}
    /\ queue' = queue \cup {m}
    /\ UNCHANGED <<etl_batch, staged, worker, delivered, stage_seq, gmail_active, task_exc,
                   upload_result>>
    /\ UNCHANGED <<loadVars, rulesVars, syncVars, parseVars, apiVars>>

\* the except clauses of the tasks: status and message are set and committed
\* on a session whose last commit may have failed; the write may not persist
MarkFailed(b, persisted) ==
    IF persisted THEN [etl_batch EXCEPT ![b].status = "failed", ![b].error_message = "error"]
    ELSE etl_batch

\* etl_tasks.py:29-43 and 70-76: parse the file, record the counts and the
\* status "parsed", commit
ParseFileParse(w, b) ==
    /\ Msg("parse_file_task", b) \in queue
    /\ worker[w] = <<>>
    /\ queue' = queue \ {Msg("parse_file_task", b)}
    /\ delivered' = delivered \cup {Msg("parse_file_task", b)}
    /\ \E readable \in BOOLEAN :
          IF readable
          THEN LET records == detect_bank_and_parse(DocById(etl_batch[b].file))
               IN /\ etl_batch' = [etl_batch EXCEPT ![b].total_records = Len(records),
                                                    ![b].valid_records = Len(records),
                                                    ![b].status = "parsed"]
                  /\ worker' = [worker EXCEPT ![w] = <<b>>]
                  /\ task_exc' = [task_exc EXCEPT ![b] = "running"]
          ELSE /\ etl_batch' = MarkFailed(b, TRUE)
               /\ worker' = worker
               /\ task_exc' = [task_exc EXCEPT ![b] = "raised"]
    /\ UNCHANGED <<staged, redelivered, stage_seq, gmail_active, upload_result>>
    /\ UNCHANGED <<loadVars, rulesVars, syncVars, parseVars, apiVars>>

\* etl_tasks.py:45-78: stage the records, commit, trigger categorization
ParseFileStage(w) ==
    /\ worker[w] # <<>>
    /\ LET b == worker[w][1]
           records == detect_bank_and_parse(DocById(etl_batch[b].file))
           rows_ == {StagedTransaction(b, stage_seq + 1, i, records[i]) : i \in 1..Len(records)}
       IN \E outcome \in {"ok", "commit_raises", "delay_raises"} :
             CASE outcome = "ok" ->
                    /\ staged' = staged \cup rows_
                    /\ stage_seq' = stage_seq + 1
                    /\ queue' = queue \cup {Msg("categorize_transactions_task", b)}
                    /\ etl_batch' = etl_batch
                    /\ task_exc' = [task_exc EXCEPT ![b] = "returned"]
               [] outcome = "commit_raises" ->
                    /\ \E persisted \in BOOLEAN : etl_batch' = MarkFailed(b, persisted)
                    /\ task_exc' = [task_exc EXCEPT ![b] = "raised"]
                    /\ UNCHANGED <<staged, stage_seq, queue>>
               [] OTHER ->
                    \* the rows are committed, .delay raises (etl_tasks.py:68)
                    /\ staged' = staged \cup rows_
                    /\ stage_seq' = stage_seq + 1
                    /\ etl_batch' = MarkFailed(b, TRUE)
                    /\ task_exc' = [task_exc EXCEPT ![b] = "raised"]
                    /\ queue' = queue
    /\ worker' = [worker EXCEPT ![w] = <<>>]
    /\ UNCHANGED <<delivered, redelivered, gmail_active, upload_result>>
    /\ UNCHANGED <<loadVars, rulesVars, syncVars, parseVars, apiVars>>

\* etl_tasks.py:99-108
Categorized(t) ==
    LET c == categorize_transaction(IF t.description = NULL THEN "" ELSE t.description)
    IN [t EXCEPT !.category = c[1], !.subcategory = c[2], !.category_confidence = c[3]]

\* variant: the count is added to the stored one
ProcessedRecords_Accumulate(previous, txns) == previous + Cardinality(txns)

\* etl_tasks.py:113: batch.processed_records = len(txns)
ProcessedRecords(previous, txns) == Cardinality(txns)

\* etl_tasks.py:81-126
categorize_transactions_task(b) ==
    /\ Msg("categorize_transactions_task", b) \in queue
    /\ queue' = queue \ {Msg("categorize_transactions_task", b)}
    /\ delivered' = delivered \cup {Msg("categorize_transactions_task", b)}
    /\ LET txns == {t \in staged : t.batch_id = b}
       IN \E outcome \in {"ok", "query_raises", "commit_raises"} :
             CASE outcome = "query_raises" ->
                    \* the handler reads the name batch, which is bound only at
                    \* etl_tasks.py:110, and raises in its turn
                    /\ task_exc' = [task_exc EXCEPT ![b] = "raised"]
                    /\ UNCHANGED <<etl_batch, staged>>
               [] outcome = "ok" ->
                    /\ task_exc' = [task_exc EXCEPT ![b] = "returned"]
                    /\ IF txns = {}
                       THEN UNCHANGED <<etl_batch, staged>>
                       ELSE /\ staged' = (staged \ txns) \cup {Categorized(t) : t \in txns}
                            /\ etl_batch' = [etl_batch EXCEPT
                                                ![b].status = "categorized",
                                                ![b].processed_records =
                                                    ProcessedRecords(@, txns)]
               [] OTHER ->
                    /\ txns # {}
                    /\ \E persisted \in BOOLEAN : etl_batch' = MarkFailed(b, persisted)
                    /\ task_exc' = [task_exc EXCEPT ![b] = "raised"]
                    /\ staged' = staged
    /\ UNCHANGED <<worker, redelivered, stage_seq, gmail_active, upload_result>>
    /\ UNCHANGED <<loadVars, rulesVars, syncVars, parseVars, apiVars>>

\* ------------------------------------------------------------------------
\* gmail_parser.py.  A message is [id, subject, body]; what re.search finds
\* in its text is tabulated per text: for each pattern, in the order of the
\* list, the group captured by the first occurrence, or NULL.
\* ------------------------------------------------------------------------
GmailMessage(id, subject) == [id |-> id, subject |-> subject, body |-> ""]

GmailMessages == {
    GmailMessage("m1", "Rs. 450.00 debited on 15/01/2024"),
    GmailMessage("m2", "Amount: 450.00 paid on 15-Jan-2024"),
    GmailMessage("m3", "Total: Rs. 1,450.00"),
    GmailMessage("m4", "Your OTP is 123456"),
    GmailMessage("m5", "Balance Rs. 0.00. Rs. 450.00 debited"),
    GmailMessage("m6", "Rs. 0 fee. Paid 450.00 on 32/13/2024"),
    GmailMessage("m7", "Rs. , pending")
  }

\* gmail_parser.py:14-19: currency-prefixed, after amount/paid/debited/
\* credited, after total/bill, bare number with two decimals
AmountSearch(text) ==
    CASE text = "Rs. 450.00 debited on 15/01/2024"     -> <<"450.00", NULL, NULL, "450.00">>
      [] text = "Amount: 450.00 paid on 15-Jan-2024"   -> <<NULL, "450.00", NULL, "450.00">>
      [] text = "Total: Rs. 1,450.00"                  -> <<"1,450.00", NULL, "1,450.00", "1,450.00">>
      [] text = "Balance Rs. 0.00. Rs. 450.00 debited" -> <<"0.00", NULL, NULL, "0.00">>
      [] text = "Rs. 0 fee. Paid 450.00 on 32/13/2024" -> <<"0", "450.00", NULL, "450.00">>
      [] text = "Rs. , pending"                        -> <<",", NULL, NULL, NULL>>
      [] OTHER -> <<NULL, NULL, NULL, NULL>>

\* gmail_parser.py:39-45: the date patterns with the formats tried for each
DateFormats == << <<"%d-%b-%Y", "%d/%b/%Y">>, <<"%d/%m/%Y", "%m/%d/%Y">>,
                  <<"%d-%m-%Y", "%m-%d-%Y">>, <<"%Y-%m-%d">>, <<"%d %b %Y", "%d %B %Y">> >>

DateSearch(text) ==
    CASE text = "Rs. 450.00 debited on 15/01/2024"     -> <<NULL, "15/01/2024", NULL, NULL, NULL>>
      [] text = "Amount: 450.00 paid on 15-Jan-2024"   -> <<"15-Jan-2024", NULL, NULL, NULL, NULL>>
      [] text = "Rs. 0 fee. Paid 450.00 on 32/13/2024" -> <<NULL, "32/13/2024", NULL, NULL, NULL>>
      [] OTHER -> <<NULL, NULL, NULL, NULL, NULL>>

\* float(m.group(1).replace(",", "")) of a capture, None if it raises
CaptureValue(capture) == float(replace_comma(capture))

\* gmail_parser.py:21-32: the patterns in order; a pattern whose first
\* occurrence is not a positive number is passed over
RECURSIVE parse_amount_from(_, _)
parse_amount_from(captures, k) ==
    IF k > Len(captures) THEN None
    ELSE IF captures[k] # NULL /\ CaptureValue(captures[k]) # None
            /\ CaptureValue(captures[k])[1] > 0
    THEN CaptureValue(captures[k])
    ELSE parse_amount_from(captures, k + 1)

\* gmail_parser.py:11-32
parse_amount_FirstMatch(text) ==
    LET matched == {k \in 1..4 : AmountSearch(text)[k] # NULL}
    IN IF matched = {} THEN None
       ELSE CaptureValue(AmountSearch(text)[CHOOSE k \in matched : \A j \in matched : k <= j])

parse_amount(text) == parse_amount_from(AmountSearch(text), 1)

\* gmail_parser.py:50-54: the formats of one pattern, first success wins
RECURSIVE strptime_any(_, _)
strptime_any(date_str, formats) ==
    IF formats = <<>> THEN None
    ELSE IF strptime(date_str, Head(formats)) # None THEN strptime(date_str, Head(formats))
    ELSE strptime_any(date_str, Tail(formats))

RECURSIVE parse_date_from(_, _, _)
parse_date_from(captures, k, now) ==
    IF k > Len(captures) THEN now
    ELSE IF captures[k] # NULL /\ strptime_any(captures[k], DateFormats[k]) # None
    THEN strptime_any(captures[k], DateFormats[k])[1]
    ELSE parse_date_from(captures, k + 1, now)

\* gmail_parser.py:35-57: the day parsed, or the current day
parse_date(text, now) == parse_date_from(DateSearch(text), 1, now)

\* the days datetime.now() may return
Clock == {20, 21}

\* gmail_parser.py:160-223: the record of one message (zero or one); none of
\* the texts above is a loan, credit-card or OTT mail, so channel is EMAIL
gmail_message_to_record(msg, now) ==
    LET combined == msg.subject
        amount == parse_amount(combined)
    IN IF amount = None THEN <<>>
       ELSE << [gmail_message_id |-> msg.id, txn_date |-> parse_date(combined, now),
                description |-> msg.subject, amount |-> amount[1], direction |-> "DEBIT",
                channel |-> "EMAIL"] >>

\* gmail_parser.py:139-225 (etl_tasks.py:165 hands it the empty stub list)
RECURSIVE gmail_messages_to_staged_transactions(_, _)
gmail_messages_to_staged_transactions(messages, now) ==
    IF messages = <<>> THEN <<>>
    ELSE gmail_message_to_record(Head(messages), now)
           \o gmail_messages_to_staged_transactions(Tail(messages), now)

\* etl_tasks.py:129-237
parse_gmail_task(b) ==
    /\ Msg("parse_gmail_task", b) \in queue
    /\ delivered' = delivered \cup {Msg("parse_gmail_task", b)}
    /\ IF ~gmail_active
       THEN /\ etl_batch' = [etl_batch EXCEPT
                                ![b].status = "failed",
                                ![b].error_message = "Gmail account not found or inactive"]
            /\ queue' = queue \ {Msg("parse_gmail_task", b)}
            /\ task_exc' = [task_exc EXCEPT ![b] = "returned"]
       ELSE LET records == gmail_messages_to_staged_transactions(<<>>, CHOOSE now \in Clock : TRUE)
                parsed == [etl_batch EXCEPT ![b].total_records = Len(records),
                                            ![b].valid_records = Len(records),
                                            ![b].status = "parsed"]
            IN \E delay_ok \in BOOLEAN :
                  IF delay_ok
                  THEN /\ etl_batch' = parsed
                       /\ queue' = (queue \ {Msg("parse_gmail_task", b)})
                                   \cup {Msg("categorize_transactions_task", b)}
                       /\ task_exc' = [task_exc EXCEPT ![b] = "returned"]
                  ELSE \* etl_tasks.py:228-235: the handler reads the batch again
                       /\ etl_batch' = [parsed EXCEPT ![b].status = "failed",
                                                      ![b].error_message = "error"]
                       /\ queue' = queue \ {Msg("parse_gmail_task", b)}
                       /\ task_exc' = [task_exc EXCEPT ![b] = "raised"]
    /\ UNCHANGED <<staged, worker, redelivered, stage_seq, upload_result>>
    /\ UNCHANGED <<gmail_active, loadVars, rulesVars, syncVars, parseVars, apiVars>>

\* etl_router.py:93, 133: filter_by(batch_id=batch_id, user_id=user.user_id)
OwnsBatch(user_id, b) == etl_batch[b].status # "absent" /\ etl_batch[b].user_id = user_id

BatchResponse(op, user, b, code) == [ApiResponse(op, user, code) EXCEPT !.batch_id = b]

\* etl_router.py:81-111
get_batch_status(user_id, b) ==
    /\ api_response' =
          IF OwnsBatch(user_id, b)
          THEN [BatchResponse("get_batch_status", user_id, b, 200) EXCEPT
                    !.batch_out = <<etl_batch[b]>>]
          ELSE BatchResponse("get_batch_status", user_id, b, 404)
    /\ UNCHANGED <<loadVars, batchVars, rulesVars, syncVars, parseVars, api_calls>>

\* etl_router.py:114-167: the batch is looked up by id and user, its
\* staged rows by batch id
get_batch_transactions(user_id, b) ==
    /\ api_response' =
          IF OwnsBatch(user_id, b)
          THEN [BatchResponse("get_batch_transactions", user_id, b, 200) EXCEPT
                    !.rows_out = {s \in staged : s.batch_id = b},
                    !.batch_out = <<etl_batch[b]>>]
          ELSE BatchResponse("get_batch_transactions", user_id, b, 404)
    /\ UNCHANGED <<loadVars, batchVars, rulesVars, syncVars, parseVars, api_calls>>

BatchVarsInit ==
    /\ etl_batch = [b \in BatchIds |-> AbsentBatch]
    /\ staged = {}
    /\ queue = {}
    /\ worker = [w \in Workers |-> <<>>]
    /\ delivered = {}
    /\ redelivered = {}
    /\ stage_seq = 0
    /\ gmail_active = TRUE
    /\ task_exc = [b \in BatchIds |-> "none"]
    /\ upload_result = [b \in BatchIds |-> NoUpload]

\* ------------------------------------------------------------------------
\* apply_categorization_rules (etl.py:359-420)
\* ------------------------------------------------------------------------
\* pat in haystack
Contains(pat, haystack) ==
    \/ pat = ""
    \/ haystack = "swiggy order" /\ pat \in {"swiggy", "order", "swiggy order"}

\* haystack.startswith(pat)
StartsWith(pat, haystack) ==
    \/ pat = ""
    \/ haystack = "swiggy order" /\ pat \in {"swiggy", "swiggy order"}

\* re.search(pattern, haystack, re.IGNORECASE): "match", "none", or "re.error"
\* when the pattern does not compile
re_search(pattern, haystack) ==
    CASE pattern = "swiggy(" -> "re.error"
      [] pattern = "sw.*" /\ haystack = "swiggy order" -> "match"
      [] pattern = "SWIGGY" /\ haystack = "swiggy order" -> "match"
      [] OTHER -> "none"

\* r.get(field_name) of a canonical row
RowField(r, field_name) ==
    CASE field_name = "description" -> r.description
      [] field_name = "merchant" -> r.merchant
      [] OTHER -> NULL

\* etl.py:386-411: does the rule match the row
RuleMatches(rule, r) ==
    IF rule.direction # NULL /\ rule.direction # r.direction THEN FALSE
    ELSE LET haystack == lower(IF RowField(r, rule.match_field) = NULL THEN ""
                               ELSE RowField(r, rule.match_field))
             pat == lower(IF rule.match_value = NULL THEN "" ELSE rule.match_value)
         IN IF haystack = "" THEN FALSE
            ELSE CASE rule.match_type = "contains" -> Contains(pat, haystack)
                   [] rule.match_type = "startswith" -> StartsWith(pat, haystack)
                   [] rule.match_type = "regex" -> re_search(rule.match_value, haystack) = "match"
                   [] OTHER -> FALSE

\* etl.py:368-376: WHERE is_active AND (bank_code = :bank_code OR bank_code IS NULL)
SelectRules(table, bank_code) ==
    {i \in 1..Len(table) : table[i].is_active
                           /\ (table[i].bank_code = bank_code \/ table[i].bank_code = NULL)}

\* variant: the rows come back in insertion order
OrderByPriority_Insertion(table, S) ==
    {s \in [1..Cardinality(S) -> S] : \A i, j \in 1..Cardinality(S) : i < j => s[i] < s[j]}

\* etl.py:375: ORDER BY priority ASC; the orders the database may return
\* (rows of equal priority come in any order)
OrderByPriority(table, S) ==
    {s \in Perms(S) : \A i, j \in 1..Cardinality(S) :
                          i < j => table[s[i]].priority <= table[s[j]].priority}

\* etl.py:382-416: the first rule of the list that matches decides
RECURSIVE FirstMatch(_, _, _)
FirstMatch(table, order, r) ==
    IF order = <<>> THEN [primary_category |-> "uncategorized", sub_category |-> "uncategorized"]
    ELSE IF RuleMatches(table[Head(order)], r)
         THEN [primary_category |-> table[Head(order)].primary_category,
               sub_category |-> table[Head(order)].sub_category]
         ELSE FirstMatch(table, Tail(order), r)

Rule(id, bank, field, type, value, dir, cat, prio, active) ==
    [rule_id |-> id, bank_code |-> bank, match_field |-> field, match_type |-> type,
     match_value |-> value, direction |-> dir, primary_category |-> cat,
     sub_category |-> cat, priority |-> prio, is_active |-> active]

\* rules an administrator may have put in enrichment.txn_categorization_rule
RulePool == {
    Rule("r1", NULL, "description", "contains", "Swiggy", NULL, "food", 20, TRUE),
    Rule("r2", NULL, "description", "startswith", "swiggy", "debit", "dining", 10, TRUE),
    Rule("r3", NULL, "description", "regex", "swiggy(", NULL, "bad_regex", 1, TRUE),
    Rule("r4", NULL, "description", "contains", "order", "credit", "credit_only", 2, TRUE),
    Rule("r5", NULL, "merchant", "contains", "swiggy", NULL, "by_merchant", 3, TRUE),
    Rule("r6", "ICICI", "description", "regex", "sw.*", NULL, "icici_only", 5, TRUE),
    Rule("r7", NULL, "description", "regex", "SWIGGY", NULL, "inactive", 0, FALSE),
    Rule("r8", NULL, "description", "contains", "order", NULL, "orders", 10, TRUE)
  }

RuleRows == {
    [direction |-> "debit", description |-> "SWIGGY ORDER", merchant |-> NULL],
    [direction |-> "credit", description |-> "SWIGGY ORDER", merchant |-> ""],
    [direction |-> "debit", description |-> NULL, merchant |-> NULL]
  }

\* rule tables of up to MaxRules distinct rules, in every insertion order
RuleTables ==
    UNION {{t \in [1..n -> RulePool] : \A i, j \in 1..n : i # j => t[i] # t[j]} : n \in 0..MaxRules}

NotApplied == [applied |-> FALSE, bank_code |-> NULL, primary_category |-> NULL,
               sub_category |-> NULL]

RulesVarsInit ==
    /\ rule_table = <<>>
    /\ rule_row = CHOOSE r \in RuleRows : TRUE
    /\ rule_out = NotApplied

RulesInit ==
    /\ rule_table \in RuleTables
    /\ rule_row \in RuleRows
    /\ rule_out = NotApplied

\* one call apply_categorization_rules(session, [rule_row], bank_code)
apply_categorization_rules(bank_code) ==
    /\ ~rule_out.applied
    /\ \E order \in OrderByPriority(rule_table, SelectRules(rule_table, bank_code)) :
          rule_out' = [applied |-> TRUE, bank_code |-> bank_code,
                       primary_category |-> FirstMatch(rule_table, order, rule_row).primary_category,
                       sub_category |-> FirstMatch(rule_table, order, rule_row).sub_category]
    /\ UNCHANGED <<rule_table, rule_row>>
    /\ UNCHANGED <<loadVars, batchVars, syncVars, parseVars, apiVars>>

\* ------------------------------------------------------------------------
\* The synchronous pipelines of etl.py and the worker tasks of etl_worker.py
\* ------------------------------------------------------------------------
\* a stored file: the raw grid of a sheet (every row, title rows included),
\* the text lines of the pages of a PDF, the password it is encrypted with
SheetFile(id, kind, grid) ==
    [id |-> id, kind |-> kind, corrupt |-> FALSE, encrypted_with |-> NULL, grid |-> grid,
     pages |-> <<>>]

PdfFile(id, encrypted_with, pages) ==
    [id |-> id, kind |-> "pdf", corrupt |-> FALSE, encrypted_with |-> encrypted_with,
     grid |-> <<>>, pages |-> pages]

HdfcHeader == <<Str("Value Date"), Str("Narration"), Str("Withdrawal Amt."), Str("Deposit Amt.")>>

SyncFiles == {
    \* rows 1-2 letterhead, header in row 3
    SheetFile("letterhead.xlsx", "excel",
              << <<Str("HDFC BANK Ltd"), NaNCell, NaNCell, NaNCell>>,
                 <<Str("Statement of Account"), NaNCell, NaNCell, NaNCell>>,
                 HdfcHeader,
                 <<Num(15), Str("SWIGGY PAYMENT"), Num(450), NaNCell>> >>),
    \* header in row 1; the second data row has no narration
    SheetFile("hdfc_plain.xlsx", "excel",
              << HdfcHeader,
                 <<Num(15), Str("SWIGGY PAYMENT"), Num(450), NaNCell>>,
                 <<Num(16), NaNCell, NaNCell, Num(1450)>> >>),
    \* the same table under one and under three leading rows (one of them blank)
    SheetFile("lead1.xlsx", "excel",
              << <<Str("HDFC BANK Ltd"), NaNCell, NaNCell, NaNCell>>,
                 HdfcHeader,
                 <<Num(15), Str("SWIGGY PAYMENT"), Num(450), NaNCell>>,
                 <<Num(16), NaNCell, NaNCell, Num(1450)>> >>),
    SheetFile("lead3.xlsx", "excel",
              << <<Str("HDFC BANK Ltd"), NaNCell, NaNCell, NaNCell>>,
                 <<NaNCell, NaNCell, NaNCell, NaNCell>>,
                 <<Str("Statement of Account"), NaNCell, NaNCell, NaNCell>>,
                 HdfcHeader,
                 <<Num(15), Str("SWIGGY PAYMENT"), Num(450), NaNCell>>,
                 <<Num(16), NaNCell, NaNCell, Num(1450)>> >>),
    \* the same table under a title row that names a date and a balance
    SheetFile("titled.xlsx", "excel",
              << <<Str("Statement Date"), Str("Closing Balance"), NaNCell, NaNCell>>,
                 HdfcHeader,
                 <<Num(15), Str("SWIGGY PAYMENT"), Num(450), NaNCell>>,
                 <<Num(16), NaNCell, NaNCell, Num(1450)>> >>),
    \* only a row without narration
    SheetFile("no_narration.xlsx", "excel",
              << HdfcHeader, <<Num(16), NaNCell, NaNCell, Num(1450)>> >>),
    \* no header at all: one text line per row
    SheetFile("lines.xlsx", "excel",
              << <<Str("Notes"), NaNCell, NaNCell, NaNCell>>,
                 <<Str("15/01/2024"), Str("SWIGGY ORDER"), Str("450.00"), Str("DR")>> >>),
    [SheetFile("corrupt.xlsx", "excel", <<>>) EXCEPT !.corrupt = TRUE],
    SheetFile("txns.csv", "csv",
              << <<Str("Date"), Str("Description"), Str("Amount"), Str("Type")>>,
                 <<Num(15), Str("SWIGGY ORDER"), Num(450), Str("Debit")>>,
                 <<Num(16), NaNCell, Num(1450), Str("credit")>> >>),
    PdfFile("open.pdf", NULL, << <<NoMatch, Line("15/01/2024", "SWIGGY ORDER", "450.00", "dr")>> >>),
    PdfFile("blank.pdf", NULL, << <<NoMatch>> >>),
    PdfFile("locked.pdf", "secret", << <<Line("15/01/2024", "SWIGGY ORDER", "450.00", "dr")>> >>),
    SheetFile("gaps.csv", "csv",
              << <<Str("Date"), Str("Description"), Str("Amount"), Str("Type")>>,
                 <<Num(16), NaNCell, Num(1450), Str("credit")>> >>),
    [PdfFile("corrupt.pdf", NULL, <<>>) EXCEPT !.corrupt = TRUE]
  }

\* the password form field: absent, empty, right, wrong
Passwords == {NULL, "", "secret", "wrong"}

\* an exception: its class, its message and, for HTTPException, its status
Exc(type, detail) == [type |-> type, detail |-> detail, code |-> 0]

HTTPException(status_code, detail) == [type |-> "HTTPException", detail |-> detail, code |-> status_code]

NoExc == Exc("none", "")

\* str(c).strip().lower() of a header cell read by pandas
Label(cell) ==
    IF cell.t = "str" THEN lower(cell.s) ELSE IF cell.t = "nan" THEN "unnamed" ELSE "number"

\* pd.read_excel(path, header=k): row k+1 of the grid gives the labels
ReadExcel(grid, k) ==
    IF Len(grid) <= k THEN [columns |-> <<>>, rows |-> <<>>]
    ELSE [columns |-> [i \in 1..Len(grid[k + 1]) |-> Label(grid[k + 1][i])],
          rows |-> SubSeq(grid, k + 2, Len(grid))]

\* the keywords of the header tests that occur in a cell text (substring
\* test: "withdrawal" contains "dr", "description" contains "cr")
HeaderWords(text) ==
    ColWords(text) \cup (IF text = "withdrawal amt." THEN {"dr"} ELSE {})
                   \cup (IF text \in {"description", "credit amount"} THEN {"cr"} ELSE {})

\* etl.py:470, 510: the non-empty cell texts of a raw row
RowTexts(row) ==
    {Label(row[i]) : i \in {j \in 1..Len(row) : row[j].t # "nan" /\ ~(row[j].t = "str" /\ row[j].s = "")}}

RowWords(row) == UNION {HeaderWords(t) : t \in RowTexts(row)}

\* etl.py:469-494
is_header_row(row) ==
    /\ RowTexts(row) # {}
    /\ "date" \in RowWords(row)
    /\ \/ {"narration", "description", "particulars"} \cap RowWords(row) # {}
       \/ {"withdrawal", "deposit", "debit", "credit", "amount", "balance", "dr", "cr"}
              \cap RowWords(row) # {}

\* etl.py:508-517
is_loose_header_row(row) ==
    /\ RowTexts(row) # {}
    /\ "date" \in RowWords(row)
    /\ {"narration", "description", "particulars"} \cap RowWords(row) # {}

\* etl.py:437-441: the default read already has a date and a narration column
HasUsefulHeaders(columns) ==
    /\ \E i \in 1..Len(columns) : "date" \in ColWords(columns[i])
    /\ \E i \in 1..Len(columns) :
          {"narration", "description", "particulars"} \cap ColWords(columns[i]) # {}

\* the first index of a set of row indices
FirstOf(S) == CHOOSE i \in S : \A j \in S : i <= j

\* etl.py:423-551: the frame the header detection hands to the normalizer
read_excel_with_auto_header_Default(grid) == ReadExcel(grid, 0)

read_excel_with_auto_header(grid) ==
    LET strict == {i \in 1..Len(grid) : is_header_row(grid[i])}
        loose == {i \in 1..Len(grid) : is_loose_header_row(grid[i])}
        non_empty == {i \in 1..Len(grid) : RowTexts(grid[i]) # {}}
    IN IF HasUsefulHeaders(ReadExcel(grid, 0).columns) THEN ReadExcel(grid, 0)
       ELSE IF strict # {} THEN ReadExcel(grid, FirstOf(strict) - 1)
       ELSE IF loose # {} THEN ReadExcel(grid, FirstOf(loose) - 1)
       ELSE IF non_empty # {}
            THEN [columns |-> [i \in 1..Len(grid[FirstOf(non_empty)]) |->
                                  IF grid[FirstOf(non_empty)][i].t = "nan" THEN "nan"
                                  ELSE Label(grid[FirstOf(non_empty)][i])],
                  rows |-> SubSeq(grid, FirstOf(non_empty) + 1, Len(grid))]
       ELSE [columns |-> <<>>, rows |-> grid]

\* the groups the line regex captures in the joined cells of a sheet row
\* (etl.py:661-677), or NoMatch
RowLine(cells) ==
    IF /\ Len(cells) >= 4
       /\ \A i \in 1..4 : cells[i].t = "str"
       /\ cells[1].s \in {"15/01/2024", "16/01/24", "15-01-2024", "16-01-24", "32/13/2024"}
       /\ cells[3].s \in {"450.00", "1,450.00", "1450.00", "0.00", "0"}
       /\ lower(cells[4].s) \in {"dr", "cr", "debit", "credit"}
    THEN Line(cells[1].s, cells[2].s, cells[3].s, cells[4].s)
    ELSE NoMatch

\* etl.py:644-714: the fallback row parser (same steps as the PDF line parser)
parse_excel_generic_rows(df) ==
    parse_pdf_generic_lines([i \in 1..Len(df.rows) |-> RowLine(df.rows[i])])

\* the bank the normalizer works with (etl.py:146-161, 220)
NormalizerBankKey(bank_code, df) ==
    LET detected == DetectBank(bank_code, df.rows)
    IN IF detected \in {"HDFC", "ICICI", "SBI", "GENERIC"} THEN detected ELSE "GENERIC"

\* etl.py:560-598: <<exception, canonical rows>> of the Excel pipeline
ExcelRows(file, bank_code) ==
    IF file.corrupt
    THEN <<Exc("ValueError", "Failed to read Excel file. Ensure it's a valid .xlsx or .xls file"), <<>>>>
    ELSE LET df == read_excel_with_auto_header(file.grid)
         IN IF HasDateAndDesc(NormalizerBankKey(bank_code, df), df.columns)
            THEN <<NoExc, normalize_excel_df([bank_code |-> bank_code, columns |-> df.columns,
                                              rows |-> df.rows])>>
            ELSE <<NoExc, parse_excel_generic_rows(ReadExcel(file.grid, 0))>>

\* what pdfplumber.open raises for an encrypted file it cannot decrypt:
\* pdfminer's PDFPasswordIncorrect (it carries no message), bare or wrapped
\* in pdfplumber's own PdfminerException, depending on the installed release
PasswordErrors == {Exc("PDFPasswordIncorrect", ""), Exc("PdfminerException", "")}

\* etl.py:811-813: the three signals of a password problem
IsPasswordError(e) ==
    \/ e.detail \in {"password", "encrypted"}
    \/ e.type = "PDFPasswordIncorrect"

\* etl.py:809-818: the ValueError the handler of pdfplumber.open raises
OpenErrorToValueError(e, password) ==
    IF IsPasswordError(e)
    THEN IF password \notin {NULL, ""}
         THEN Exc("ValueError", "PDF password is incorrect. Please check the password and try again.")
         ELSE Exc("ValueError", "PDF is password protected. Please provide the password.")
    ELSE Exc("ValueError", "Failed to open PDF")

\* etl.py:806-829: <<exception, canonical rows>> of parse_pdf_statement on a
\* stored file; lib_exc is what the library raises if it cannot decrypt
PdfRows(file, password, lib_exc) ==
    IF file.corrupt
    THEN <<OpenErrorToValueError(Exc("PDFSyntaxError", "No /Root object"), password), <<>>>>
    ELSE IF file.encrypted_with # NULL /\ password # file.encrypted_with
    THEN <<OpenErrorToValueError(lib_exc, password), <<>>>>
    ELSE <<NoExc, parse_pdf_statement(file.pages)>>

\* the fields of a row handed to StagedTxnIn that the validator looks at:
\* which of them are non-null, and whether the description is the empty text
TxnFields(date, amount, direction, description, blank) ==
    [date |-> date, amount |-> amount, direction |-> direction, description |-> description,
     blank |-> blank]

\* etl.py:606-618, 866-878: StagedTxnIn(...) of a canonical row
CanonicalFields(canon) ==
    [i \in 1..Len(canon) |->
        TxnFields(TRUE, TRUE, canon[i].direction \notin {NULL, ""}, canon[i].description # NULL,
                  canon[i].description = "")]

\* etl.py:97-115: StagedTxnIn(...) of the rows of a CSV (a NaN cell is truthy,
\* so "or" does not fall through to the alternative label)
CsvFields(grid) ==
    LET df == ReadExcel(grid, 0)
        present(cells, col) == (\E k \in 1..Len(df.columns) : df.columns[k] = col) /\ ~isna(RowGet(df.columns, cells, col))
    IN [i \in 1..Len(df.rows) |->
          TxnFields(present(df.rows[i], "date"), present(df.rows[i], "amount"),
                    present(df.rows[i], "type"), present(df.rows[i], "description"), FALSE)]

\* StagedTxnIn: a strict schema refuses a row with a missing or empty field,
\* a lenient one takes every row
StagedTxnIn(f, strict) ==
    ~strict \/ (f.date /\ f.amount /\ f.direction /\ f.description /\ ~f.blank)

\* validate_staged_transactions: structural completeness only
IsComplete(f) == f.date /\ f.amount /\ f.direction /\ f.description

validate_staged_transactions(txns) ==
    [valid |-> Cardinality({i \in DOMAIN txns : IsComplete(txns[i])}),
     invalid |-> Cardinality({i \in DOMAIN txns : ~IsComplete(txns[i])})]

\* the result of one run of a pipeline: the exception it ends with, the
\* canonical rows it parsed, the ETLPipeline methods it called, in order,
\* the validation counts and the number of rows staged
Outcome(exc, canon, calls, v, records_staged) ==
    [exc |-> exc, rows |-> canon, calls |-> calls, v |-> v, staged |-> records_staged]

Faults == {"none", "rules_db", "stage_db", "load_db"}

OperationalError == Exc("OperationalError", "connection refused")

\* etl.py:124, 628, 886: the guard of the categorize and load steps
RunsCategorizeAndLoad_Always(v) == TRUE

RunsCategorizeAndLoad(v) == v.valid > 0

\* etl.py:119-128, 603-632, 863-890: schema, stage, validate, then
\* categorize and load under the guard; a database fault ends the run
StageValidateLoad(canon, fields, strict, fault) ==
    LET accepted == {i \in DOMAIN fields : StagedTxnIn(fields[i], strict)}
        txns == [i \in accepted |-> fields[i]]
        v == validate_staged_transactions(txns)
        records_staged == Cardinality(accepted)
    IN IF fault = "stage_db"
       THEN Outcome(OperationalError, canon, <<"stage">>, None, records_staged)
       ELSE IF ~RunsCategorizeAndLoad(v)
       THEN Outcome(NoExc, canon, <<"stage", "validate">>, Some(v), records_staged)
       ELSE Outcome(IF fault = "load_db" THEN OperationalError ELSE NoExc, canon,
                    <<"stage", "validate", "categorize", "load">>, Some(v), records_staged)

\* etl.py:593-601, 855-860: no rows, return (0, 0, 0); else the rule table
\* is read and the rows go to staging
RulesThenStage(canon, strict, fault) ==
    IF canon = <<>> THEN Outcome(NoExc, canon, <<>>, Some([valid |-> 0, invalid |-> 0]), 0)
    ELSE IF fault = "rules_db" THEN Outcome(OperationalError, canon, <<>>, None, 0)
    ELSE StageValidateLoad(canon, CanonicalFields(canon), strict, fault)

\* etl.py:92-131
sync_parse_and_stage_csv(file, strict, fault) ==
    StageValidateLoad(<<>>, CsvFields(file.grid), strict, fault)

\* etl.py:554-641
sync_parse_and_stage_excel(file, bank_code, strict, fault) ==
    LET parsed == ExcelRows(file, bank_code)
    IN IF parsed[1] # NoExc THEN Outcome(parsed[1], <<>>, <<>>, None, 0)
       ELSE RulesThenStage(parsed[2], strict, fault)

\* etl.py:832-896: a ValueError of the parser becomes HTTPException(400)
sync_parse_and_stage_pdf(file, password, lib_exc, strict, fault) ==
    LET parsed == PdfRows(file, password, lib_exc)
    IN IF parsed[1] # NoExc THEN Outcome(HTTPException(400, parsed[1].detail), <<>>, <<>>, None, 0)
       ELSE RulesThenStage(parsed[2], strict, fault)

\* a call by keyword binds only if every keyword is a parameter; else TypeError
BindsKeywords(keywords, parameters) == keywords \subseteq parameters

\* etl_worker.py:122-129 against etl.py:832-839
PdfCallKeywords == {"user_id", "batch_id", "file_name", "file_or_bytes", "bank_code", "password"}

PdfParameters == {"user_id", "batch_id", "file_name", "raw_bytes", "bank_code", "password"}

\* ------------------------------------------------------------------------
\* State of the synchronous pipelines: the request or task in progress
\* ------------------------------------------------------------------------
NoJob == [task |-> "none", file |-> "", bank_code |-> "", password |-> NULL, retries |-> 0,
          state |-> "none"]

NoResponse == [kind |-> "none", code |-> 0, status |-> "", detail |-> "", records_staged |-> 0]

\* an ETLResponse, an HTTP error or a task's result dict
Response(kind, code, status, detail, records_staged) ==
    [kind |-> kind, code |-> code, status |-> status, detail |-> detail,
     records_staged |-> records_staged]

SyncVarsInit ==
    /\ job = NoJob
    /\ retry_log = <<>>
    /\ pipeline_calls = <<>>
    /\ validation = None
    /\ canonical = <<>>
    /\ response = NoResponse

FileById(id) == CHOOSE f \in SyncFiles : f.id = id

\* the effect of one run on the record of the job
RecordOutcome(out) ==
    /\ pipeline_calls' = out.calls
    /\ validation' = out.v
    /\ canonical' = out.rows

\* the request or task is accepted: a new job replaces the finished one
NewJob(task, file, bank_code, password) ==
    [task |-> task, file |-> file.id, bank_code |-> bank_code, password |-> password,
     retries |-> 0, state |-> "queued"]

\* etl_worker.py:19: the task is sent to the worker
apply_async(task, file, bank_code, password) ==
    /\ job.state \in {"none", "done"}
    /\ job' = NewJob(task, file, bank_code, password)
    /\ retry_log' = <<>>
    /\ pipeline_calls' = <<>>
    /\ validation' = None
    /\ canonical' = <<>>
    /\ response' = NoResponse
    /\ UNCHANGED <<loadVars, batchVars, rulesVars, parseVars, apiVars>>

max_retries == 3

\* etl_worker.py:73: countdown=60 * (self.request.retries + 1)
Countdown(retries) == 60 * (retries + 1)

\* etl_worker.py:61-78: the result dict, or a retry while the budget lasts
TaskEnds(out) ==
    /\ RecordOutcome(out)
    /\ IF out.exc = NoExc
       THEN /\ response' = Response("task", 0, "success", "", out.staged)
            /\ job' = [job EXCEPT !.state = "done"]
            /\ UNCHANGED retry_log
       ELSE IF job.retries < max_retries
       THEN /\ retry_log' = Append(retry_log, [exc |-> out.exc, countdown |-> Countdown(job.retries)])
            /\ job' = [job EXCEPT !.retries = @ + 1]
            /\ UNCHANGED response
       ELSE /\ response' = Response("task", 0, "error", out.exc.detail, 0)
            /\ job' = [job EXCEPT !.state = "done"]
            /\ UNCHANGED retry_log
    /\ UNCHANGED <<loadVars, batchVars, rulesVars, parseVars, apiVars>>

\* etl_worker.py:19-85: one delivery of process_excel_etl
process_excel_etl ==
    /\ job.state = "queued" /\ job.task = "process_excel_etl"
    /\ \E strict \in BOOLEAN, fault \in Faults :
          TaskEnds(sync_parse_and_stage_excel(FileById(job.file), job.bank_code, strict, fault))

\* etl_worker.py:88-157: one delivery of process_pdf_etl
process_pdf_etl ==
    /\ job.state = "queued" /\ job.task = "process_pdf_etl"
    /\ \E strict \in BOOLEAN, fault \in Faults, lib_exc \in PasswordErrors :
          TaskEnds(IF BindsKeywords(PdfCallKeywords, PdfParameters)
                   THEN sync_parse_and_stage_pdf(FileById(job.file), job.password, lib_exc,
                                                 strict, fault)
                   ELSE Outcome(Exc("TypeError", "unexpected keyword argument 'file_or_bytes'"),
                                <<>>, <<>>, None, 0))

\* etl_worker.py:160-223: one delivery of process_csv_etl
process_csv_etl ==
    /\ job.state = "queued" /\ job.task = "process_csv_etl"
    /\ \E strict \in BOOLEAN, fault \in Faults :
          TaskEnds(sync_parse_and_stage_csv(FileById(job.file), strict, fault))

\* the response of an endpoint that ran the pipeline in the request
RequestEnds(task, file, bank_code, password, out, exc) ==
    /\ job' = [NewJob(task, file, bank_code, password) EXCEPT !.state = "done"]
    /\ retry_log' = <<>>
    /\ RecordOutcome(out)
    /\ response' = IF exc = NoExc
                   THEN Response("http", 200, "processed", "Upload processed", out.staged)
                   ELSE Response("http", exc.code, "error", exc.detail, 0)
    /\ UNCHANGED <<loadVars, batchVars, rulesVars, parseVars, apiVars>>

\* etl.py:899-935 with _dispatch_or_fallback (etl.py:42-89): the task is
\* sent if a worker module is importable and the broker takes it; otherwise
\* the file is parsed in the request, and an exception of that is not caught
upload_csv_etl(file) ==
    /\ job.state \in {"none", "done"}
    /\ \E dispatched \in BOOLEAN, strict \in BOOLEAN, fault \in Faults :
       LET out == sync_parse_and_stage_csv(file, strict, fault)
       IN IF dispatched
          THEN /\ job' = [NewJob("upload_csv_etl", file, "GENERIC", NULL) EXCEPT !.state = "done"]
               /\ retry_log' = <<>>
               /\ pipeline_calls' = <<>>
               /\ validation' = None
               /\ canonical' = <<>>
               /\ response' = Response("http", 200, "background", "File received. Processing in background.", 0)
               /\ UNCHANGED <<loadVars, batchVars, rulesVars, parseVars, apiVars>>
          ELSE RequestEnds("upload_csv_etl", file, "GENERIC", NULL, out,
                           IF out.exc = NoExc THEN NoExc
                           ELSE HTTPException(500, "Internal Server Error"))

\* etl.py:937-1020: HTTPException bubbles, ValueError becomes 400, the rest 500
upload_xlsx_etl(file, bank_code) ==
    /\ job.state \in {"none", "done"}
    /\ \E strict \in BOOLEAN, fault \in Faults :
       LET out == sync_parse_and_stage_excel(file, bank_code, strict, fault)
       IN RequestEnds("upload_xlsx_etl", file, bank_code, NULL, out,
                      IF out.exc.type \in {"none", "HTTPException"} THEN out.exc
                      ELSE IF out.exc.type = "ValueError" THEN HTTPException(400, out.exc.detail)
                      ELSE HTTPException(500, "Failed to process Excel file"))

\* etl.py:1028-1080: HTTPException bubbles, the rest becomes 500
upload_pdf_etl(file, password) ==
    /\ job.state \in {"none", "done"}
    /\ \E strict \in BOOLEAN, fault \in Faults, lib_exc \in PasswordErrors :
       LET out == sync_parse_and_stage_pdf(file, password, lib_exc, strict, fault)
       IN RequestEnds("upload_pdf_etl", file, "GENERIC", password, out,
                      IF out.exc.type \in {"none", "HTTPException"} THEN out.exc
                      ELSE HTTPException(500, "Failed to process PDF file"))

\* the descriptions handed to the categorizer
Descriptions == {"SWIGGY PAYMENT", "UBER EATS ORDER", "UBER RIDE", "AMAZON PRIME RENEWAL",
                 "AMAZON SHOPPING", "GAS BILL PAYMENT", "INDANE GAS", "HOME LOAN EMI",
                 "HOME LOAN REPAYMENT", "HEALTH INSURANCE PREMIUM", "CAR INSURANCE",
                 "POLICY RENEWAL", "CREDIT CARD PAYMENT", "DISNEY+ HOTSTAR", "OVERDUE INSTALLMENT",
                 "CASH DEPOSIT", "HEALTH INSURANCE"}

\* ------------------------------------------------------------------------
\* State of the parser functions: an input and, once called, the result
\* ------------------------------------------------------------------------
NoCategory == <<"", "", 0>>

ParseVarsInit ==
    /\ gmail_msgs = <<>>
    /\ gmail_records = <<>>
    /\ gmail_done = FALSE
    /\ kw_desc = ""
    /\ kw_out = NoCategory

\* the message lists handed to the parser: up to two messages
MessageLists ==
    {<<>>} \cup {<<m>> : m \in GmailMessages}
           \cup {<<m1, m2>> : m1 \in GmailMessages, m2 \in GmailMessages}

ParseInputs ==
    /\ gmail_msgs \in MessageLists
    /\ gmail_records = <<>>
    /\ gmail_done = FALSE
    /\ kw_desc \in Descriptions
    /\ kw_out = NoCategory

\* gmail_parser.py:139-225: one call
GmailParse ==
    /\ ~gmail_done
    /\ \E now \in Clock :
          gmail_records' = gmail_messages_to_staged_transactions(gmail_msgs, now)
    /\ gmail_done' = TRUE
    /\ UNCHANGED <<gmail_msgs, kw_desc, kw_out>>
    /\ UNCHANGED <<loadVars, batchVars, rulesVars, syncVars, apiVars>>

\* categorizer_new.py:108-192: one call
Categorize ==
    /\ kw_out = NoCategory
    /\ kw_out' = categorize_transaction(kw_desc)
    /\ UNCHANGED <<gmail_msgs, gmail_records, gmail_done, kw_desc>>
    /\ UNCHANGED <<loadVars, batchVars, rulesVars, syncVars, apiVars>>

\* ------------------------------------------------------------------------
\* Specifications
\* ------------------------------------------------------------------------
LoadVarsInit ==
    /\ staging = {}
    /\ uploads = {}
    /\ facts = {}
    /\ enriched = {}
    /\ merchant_rules = {}
    /\ pc = [p \in Loaders |-> "idle"]
    /\ rows = [p \in Loaders |-> <<>>]
    /\ idx = [p \in Loaders |-> 1]
    /\ inserted = [p \in Loaders |-> 0]
    /\ session = [p \in Loaders |-> EmptySession]
    /\ runs = [p \in Loaders |-> 0]
    /\ load_result = [p \in Loaders |-> "none"]
    /\ insert_err = [p \in Loaders |-> NoError]
    /\ manual_ops = 0

LoadNext ==
    \/ \E u \in Users, doc \in Documents : StageDocument(u, doc)
    \/ \E p \in Loaders, u \in Users : StartLoad(p, u)
    \/ \E p \in Loaders : CheckRow(p)
    \/ \E p \in Loaders : InsertRow(p)
    \/ \E p \in Loaders : DeadlockDetected(p)
    \/ \E p \in Loaders : CommitLoad(p)
    \/ \E p \in Loaders : RefreshAndReturn(p)
    \/ \E u \in Users, payload \in CreatePayloads : create_transaction(u, payload)
    \/ \E u \in Users, f \in facts, payload \in UpdatePayloads : update_transaction(u, f.txn_id, payload)
    \/ \E u \in Users, f \in facts : delete_transaction(u, f.txn_id)

LoadInit == LoadVarsInit /\ BatchVarsInit /\ RulesVarsInit /\ SyncVarsInit /\ ParseVarsInit /\ ApiVarsInit

SpecLoad == LoadInit /\ [][LoadNext]_vars

BatchInit == LoadVarsInit /\ BatchVarsInit /\ RulesVarsInit /\ SyncVarsInit /\ ParseVarsInit /\ ApiVarsInit

BatchNext ==
    \/ \E u \in Users, b \in BatchIds, doc \in Documents : etl_upload_file(u, b, doc)
    \/ \E u \in Users, b \in BatchIds : trigger_gmail_etl(u, b)
    \/ GmailAccountDeactivated
    \/ \E m \in delivered : Redeliver(m)
    \/ \E w \in Workers, b \in BatchIds : ParseFileParse(w, b)
    \/ \E w \in Workers : ParseFileStage(w)
    \/ \E b \in BatchIds : categorize_transactions_task(b)
    \/ \E b \in BatchIds : parse_gmail_task(b)

SpecBatch == BatchInit /\ [][BatchNext]_vars

\* one batch and one worker: upload or Gmail trigger, then the tasks
LiveNext ==
    \/ \E doc \in Documents : etl_upload_file("u1", "b1", doc)
    \/ trigger_gmail_etl("u1", "b1")
    \/ ParseFileParse("w1", "b1")
    \/ ParseFileStage("w1")
    \/ categorize_transactions_task("b1")
    \/ parse_gmail_task("b1")

\* the tasks a worker has been sent are eventually run: a queued message is
\* taken, and a task that has started goes on to its next step
TasksEventuallyRun ==
    /\ WF_vars(ParseFileParse("w1", "b1"))
    /\ WF_vars(ParseFileStage("w1"))
    /\ WF_vars(categorize_transactions_task("b1"))
    /\ WF_vars(parse_gmail_task("b1"))

SpecBatchFair == BatchInit /\ [][LiveNext]_vars /\ TasksEventuallyRun

RulesSpecInit == LoadVarsInit /\ BatchVarsInit /\ RulesInit /\ SyncVarsInit /\ ParseVarsInit /\ ApiVarsInit

RulesNext == \E bank_code \in {"HDFC", "ICICI", "GENERIC"} : apply_categorization_rules(bank_code)

SpecRules == RulesSpecInit /\ [][RulesNext]_vars

SyncInit == LoadVarsInit /\ BatchVarsInit /\ RulesVarsInit /\ SyncVarsInit /\ ParseVarsInit /\ ApiVarsInit

ExcelFiles == {f \in SyncFiles : f.kind = "excel"}

PdfFiles == {f \in SyncFiles : f.kind = "pdf"}

CsvFiles == {f \in SyncFiles : f.kind = "csv"}

SyncNext ==
    \/ \E f \in ExcelFiles, bank_code \in {"GENERIC", "HDFC"} : upload_xlsx_etl(f, bank_code)
    \/ \E f \in PdfFiles, password \in Passwords : upload_pdf_etl(f, password)
    \/ \E f \in CsvFiles : upload_csv_etl(f)
    \/ \E f \in ExcelFiles, bank_code \in {"GENERIC", "HDFC"} :
          apply_async("process_excel_etl", f, bank_code, NULL)
    \/ \E f \in PdfFiles, password \in Passwords : apply_async("process_pdf_etl", f, "GENERIC", password)
    \/ \E f \in CsvFiles : apply_async("process_csv_etl", f, "GENERIC", NULL)
    \/ process_excel_etl
    \/ process_pdf_etl
    \/ process_csv_etl

SpecSync == SyncInit /\ [][SyncNext]_vars

\* one loader, the manual edits that change a fact's fields, and changes of
\* the merchant-rule table
EditNext ==
    \/ \E u \in Users, doc \in Documents : StageDocument(u, doc)
    \/ \E u \in Users : StartLoad("L1", u)
    \/ CheckRow("L1")
    \/ InsertRow("L1")
    \/ CommitLoad("L1")
    \/ RefreshAndReturn("L1")
    \/ \E u \in Users, f \in facts, payload \in EditPayloads : update_transaction(u, f.txn_id, payload)
    \/ \E rule \in LearnedRuleChanges : LearnedRuleChange(rule)

SpecEdit == LoadInit /\ [][EditNext]_vars

\* the transaction and batch API, served to two users
ApiDocs == {doc \in Documents : doc.id \in {"hdfc.xlsx", "upi.pdf"}}

ApiNext ==
    \/ \E u \in ApiUsers, doc \in ApiDocs : etl_upload_file(u, "b1", doc)
    \/ \E u \in ApiUsers, b \in BatchIds : get_batch_status(u, b)
    \/ \E u \in ApiUsers, b \in BatchIds : get_batch_transactions(u, b)
    \/ \E u \in ApiUsers, file \in BulkFiles : bulk_import_transactions(u, file)
    \/ \E u \in ApiUsers, f \in facts : get_transaction(u, f.txn_id)
    \/ \E u \in ApiUsers, f \in facts, payload \in EditPayloads \cup UpdatePayloads :
          update_transaction(u, f.txn_id, payload)
    \/ \E u \in ApiUsers, f \in facts : delete_transaction(u, f.txn_id)

SpecApi == LoadInit /\ [][ApiNext]_vars

ParseInit == LoadVarsInit /\ BatchVarsInit /\ RulesVarsInit /\ SyncVarsInit /\ ParseInputs /\ ApiVarsInit

ParseNext == GmailParse \/ Categorize

SpecParse == ParseInit /\ [][ParseNext]_vars

\* ------------------------------------------------------------------------
\* Properties of the fact loader and the manual API (SpecLoad)
\* ------------------------------------------------------------------------
\* the content fingerprint, recomputed from a staged row / from a stored fact
ContentFpOfRow(s) ==
    fn_txn_fact_fp(s.user_id, s.txn_date, s.amount, s.direction,
                   IF s.description_raw = NULL THEN "" ELSE s.description_raw,
                   IF RowCategorized(s)[1] = NULL THEN "" ELSE RowCategorized(s)[1], "")

ContentFpOfFact(f) ==
    fn_txn_fact_fp(f.user_id, f.txn_date, f.amount, f.direction,
                   IF f.description = NULL THEN "" ELSE f.description,
                   IF f.merchant_name_norm = NULL THEN "" ELSE f.merchant_name_norm,
                   IF f.account_ref = NULL THEN "" ELSE f.account_ref)

Finished(p) == pc[p] = "idle" /\ load_result[p] \in {"ok", "ok_refresh_failed"}

OneFactPerContent ==
    \A f, g \in facts : ContentFpOfFact(f) = ContentFpOfFact(g) => f = g

ExistingRowNotInserted ==
    \A p \in Loaders :
        (/\ pc[p] \in {"loop", "insert"}
         /\ idx[p] <= Len(rows[p])
         /\ \E f \in facts \cup session[p].facts :
                ContentFpOfFact(f) = ContentFpOfRow(CurrentRow(p)))
        => /\ inserted'[p] = inserted[p]
           /\ session'[p].facts \subseteq session[p].facts

\* C1: loading is idempotent under the content fingerprint: there is one
\* fact per logical transaction, and a row whose fingerprint already has a
\* fact (from an earlier load of the same file or from another source) is
\* not inserted and does not count as inserted.
C1_IdempotentLoad == []OneFactPerContent /\ [][ExistingRowNotInserted]_vars

\* C1 witness: a second load over two sources carrying the same transaction
\* has finished with zero inserts, every row already having its fact.
C1_SecondLoadInsertsZero ==
    \E p \in Loaders :
        /\ Finished(p)
        /\ inserted[p] = 0
        /\ \E i, j \in 1..Len(rows[p]) : rows[p][i].upload_id # rows[p][j].upload_id
        /\ \A i \in 1..Len(rows[p]) :
              \E f \in facts : /\ f.dedupe_fp = RowFp(rows[p][i])
                               /\ ~(f.txn_id[1] = p /\ f.txn_id[2] = runs[p])

UniqueDedupeFp == \A f, g \in facts : f.dedupe_fp = g.dedupe_fp => f = g

RejectedInsertIsSkipped ==
    \A p \in Loaders :
        (/\ pc[p] = "insert"
         /\ pc'[p] # "insert"
         /\ inserted'[p] = inserted[p]
         /\ insert_err'[p] = UniqueViolation)
        => /\ pc'[p] = "loop"
           /\ idx'[p] = idx[p] + 1
           /\ load_result'[p] = "running"
           /\ session'[p] = session[p]

\* C2: under every interleaving of concurrent loader runs at most one
\* committed fact carries a fingerprint, and the insert the unique index
\* rejects is caught and its row skipped: the run goes on to the next row.
C2_AtMostOneFactPerFp == []UniqueDedupeFp /\ [][RejectedInsertIsSkipped]_vars

\* C2 witness: a run whose insert was rejected by the unique index, because
\* another loader's run committed the same fingerprint first, has finished.
C2_RejectedThenFinished ==
    \E p \in Loaders : \E q \in Loaders \ {p} :
        /\ Finished(p)
        /\ insert_err[p] = UniqueViolation
        /\ \A f \in facts : f.txn_id[1] # "manual"
        /\ \E f \in facts : \E i \in 1..Len(rows[p]) :
              f.txn_id[1] = q /\ f.dedupe_fp = RowFp(rows[p][i])

\* C3: every loaded fact has amount > 0 and direction debit or credit.
C3_PositiveAmount ==
    \A f \in facts : f.amount > 0 /\ f.direction \in {"debit", "credit"}

\* C5: only a unique violation on the fingerprint is skipped as a benign
\* duplicate; a run that caught any other error (a foreign-key violation,
\* say) has re-raised it.
C5_OnlyFingerprintViolationSkipped ==
    \A p \in Loaders :
        insert_err[p] \notin {NoError, UniqueViolation} => load_result[p] = "error"

ThisRun(p, f) == f.txn_id[1] = p /\ f.txn_id[2] = runs[p]

ManualCategoryKept ==
    \A e \in enriched :
        (e.rule_confidence = ManualEditConfidence /\ manual_ops' = manual_ops)
        => {x \in enriched' : x.txn_id = e.txn_id} = {e}

\* C7: once update_transaction has set an enrichment row's confidence to
\* the manual ceiling, no loader step (nor any other step that is not a
\* manual call) changes that transaction's category or subcategory.
C7_ManualEditSticks == [][ManualCategoryKept]_vars

\* C7 witness: a loader run is at a row whose fact carries a manual edit.
C7_LoaderMeetsEditedFact ==
    \E p \in Loaders :
        /\ pc[p] = "loop"
        /\ idx[p] <= Len(rows[p])
        /\ \E f \in facts : \E e \in enriched :
              /\ f.dedupe_fp = RowFp(CurrentRow(p))
              /\ e.txn_id = f.txn_id
              /\ e.rule_confidence = ManualEditConfidence
              /\ e.category_code # RowCategorized(CurrentRow(p))[2]

\* C8: no enrichment row written by the loader carries a confidence at or
\* above the manual-edit value.
C8_LoaderBelowManual ==
    \A p \in Loaders : \A e \in session[p].enriched :
        e.rule_confidence < ManualEditConfidence

\* ------------------------------------------------------------------------
\* Properties of the batch tasks (SpecBatch)
\* ------------------------------------------------------------------------
StatusRank(status) ==
    CASE status = "absent" -> 0
      [] status = "pending" -> 1
      [] status = "parsed" -> 2
      [] status = "categorized" -> 3
      [] status = "loaded" -> 4
      [] OTHER -> 5

StatusMovesForward ==
    \A b \in BatchIds :
        /\ etl_batch[b].status = "failed" => etl_batch'[b].status = "failed"
        /\ etl_batch'[b].status # "failed"
              => StatusRank(etl_batch'[b].status) >= StatusRank(etl_batch[b].status)

\* C4: over every interleaving of parse_file_task, parse_gmail_task and
\* categorize_transactions_task, re-runs included, a batch's status never
\* moves back along pending, parsed, categorized, loaded and never leaves
\* failed.
C4_StatusNeverRegresses == [][StatusMovesForward]_vars

\* the descriptions of the source rows of a batch's file
SourceDescriptions(doc) ==
    IF doc.kind = "pdf"
    THEN {doc.pages[i][j].desc : <<i, j>> \in {ij \in (1..Len(doc.pages)) \X (1..3) :
                                                 ij[2] <= Len(doc.pages[ij[1]])
                                                 /\ doc.pages[ij[1]][ij[2]].m}}
    ELSE {RowGet(doc.columns, doc.rows[i], c).s :
              <<i, c>> \in (1..Len(doc.rows)) \X SeqToSet(doc.columns)}

\* C10: every StagedTransaction written by parse_file_task comes from a
\* source row of the file; a file in which no line parses stages no row.
C10_StagedRowsHaveSource ==
    \A t \in staged :
        t.description \in SourceDescriptions(DocById(etl_batch[t.batch_id].file))

\* ------------------------------------------------------------------------
\* Properties of apply_categorization_rules (SpecRules)
\* ------------------------------------------------------------------------
HaystackOf(rule, r) ==
    IF RowField(r, rule.match_field) = NULL THEN "" ELSE lower(RowField(r, rule.match_field))

DirectionMismatch(rule, r) == rule.direction # NULL /\ rule.direction # r.direction

RegexFails(rule, r) ==
    rule.match_type = "regex" /\ re_search(rule.match_value, HaystackOf(rule, r)) = "re.error"

Hits(rule, r) ==
    /\ ~DirectionMismatch(rule, r)
    /\ HaystackOf(rule, r) # ""
    /\ \/ rule.match_type = "contains" /\ Contains(lower(rule.match_value), HaystackOf(rule, r))
       \/ rule.match_type = "startswith" /\ StartsWith(lower(rule.match_value), HaystackOf(rule, r))
       \/ rule.match_type = "regex" /\ re_search(rule.match_value, HaystackOf(rule, r)) = "match"

\* the active rules of the call's bank (or of no bank) that match the row
MatchingRules ==
    {i \in 1..Len(rule_table) :
        /\ rule_table[i].is_active
        /\ rule_table[i].bank_code \in {NULL, rule_out.bank_code}
        /\ Hits(rule_table[i], rule_row)}

\* C9: the category assigned is that of a matching rule with the lowest
\* priority number, whatever the insertion order of the rules; a rule whose
\* direction mismatches the row, whose match field is empty on the row, or
\* whose regex does not compile never decides the category.
C9_RulePrecedence ==
    rule_out.applied =>
        /\ IF MatchingRules = {}
           THEN rule_out.primary_category = "uncategorized"
           ELSE \E i \in MatchingRules :
                   /\ \A j \in MatchingRules : rule_table[i].priority <= rule_table[j].priority
                   /\ rule_out.primary_category = rule_table[i].primary_category
                   /\ rule_out.sub_category = rule_table[i].sub_category
        /\ \A i \in 1..Len(rule_table) :
              (\/ DirectionMismatch(rule_table[i], rule_row)
               \/ HaystackOf(rule_table[i], rule_row) = ""
               \/ RegexFails(rule_table[i], rule_row))
              => rule_out.primary_category # rule_table[i].primary_category

\* C9 witness: of two matching rules the one inserted later has the lower
\* priority number and decides, next to a rule whose regex does not compile.
C9_LaterInsertedRuleWins ==
    /\ rule_out.applied
    /\ \E i, j \in MatchingRules :
          /\ i < j
          /\ rule_table[j].priority < rule_table[i].priority
          /\ rule_out.primary_category = rule_table[j].primary_category
    /\ \E k \in 1..Len(rule_table) :
          RegexFails(rule_table[k], rule_row) /\ rule_table[k].priority < 10

\* ------------------------------------------------------------------------
\* Properties of the sheet parsers (SpecBatch)
\* ------------------------------------------------------------------------
\* the sheet rows of a document that carry this description
RowsWithDescription(doc, description) ==
    {i \in 1..Len(doc.rows) : \E c \in SeqToSet(doc.columns) :
                                  RowGet(doc.columns, doc.rows[i], c).s = description}

\* the row has a filled debit / credit column, a type token, or a negative amount
DirectionEvidence(doc, i) ==
    \/ \E c \in SeqToSet(doc.columns) :
          /\ {"withdrawal", "deposit", "debit", "credit"} \cap ColWords(c) # {}
          /\ RowGet(doc.columns, doc.rows[i], c).t = "num"
    \/ RowGet(doc.columns, doc.rows[i], "type").s \in {"d", "dr", "debit", "c", "cr", "credit"}
    \/ \E c \in SeqToSet(doc.columns) :
          /\ "amount" \in ColWords(c)
          /\ RowGet(doc.columns, doc.rows[i], c).t = "num"
          /\ RowGet(doc.columns, doc.rows[i], c).v < 0

\* C11: every record staged from a sheet has a direction that its source
\* row gives (a debit / credit column, a type token or a negative sign); a
\* row with a date, a description and an unsigned amount only is skipped.
C11_NoInventedDirection ==
    \A t \in staged :
        t.channel = "EXCEL"
        => \E i \in RowsWithDescription(DocById(etl_batch[t.batch_id].file), t.description) :
               DirectionEvidence(DocById(etl_batch[t.batch_id].file), i)

\* ------------------------------------------------------------------------
\* Properties of the task error handling and of the upload (SpecBatch)
\* ------------------------------------------------------------------------
\* C12: a batch whose last task run ended with an exception has status
\* failed and an error message; and a failed batch always has an error
\* message.
C12_FailureMarksBatchFailed ==
    \A b \in BatchIds :
        /\ task_exc[b] = "raised"
              => etl_batch[b].status = "failed" /\ etl_batch[b].error_message # NULL
        /\ etl_batch[b].status = "failed" => etl_batch[b].error_message # NULL

\* C13: an upload served in-process because send_task raised, with nothing
\* wrong but the broker, is answered 200 and leaves its batch not failed.
C13_BrokerDownFallsBackToSync ==
    \A b \in BatchIds :
        (upload_result[b].path = "sync" /\ upload_result[b].cause \in {"none", "broker"})
        => /\ upload_result[b].http = 200
           /\ upload_result[b].batch_status # "failed"

\* ------------------------------------------------------------------------
\* Further properties of the batch tasks (SpecBatch)
\* ------------------------------------------------------------------------
StagedOf(rows_, b) == {t \in rows_ : t.batch_id = b}

CategorizeReturned(b) ==
    /\ Msg("categorize_transactions_task", b) \in queue
    /\ Msg("categorize_transactions_task", b) \notin queue'
    /\ task_exc'[b] = "returned"

ProcessedIsStagedCount ==
    \A b \in BatchIds :
        CategorizeReturned(b)
        => etl_batch'[b].processed_records = Cardinality(StagedOf(staged', b))

\* C15: every run of categorize_transactions_task that returns, a re-run on
\* a categorized batch included, leaves processed_records equal to the
\* number of staged rows of the batch; it is never more than that number.
C15_NoDoubleCount ==
    /\ [](\A b \in BatchIds :
             etl_batch[b].processed_records <= Cardinality(StagedOf(staged, b)))
    /\ [][ProcessedIsStagedCount]_vars

\* C15 witness: a batch with staged rows has been categorized twice (its
\* categorization message was delivered again and the second run returned).
C15_CategorizedTwice ==
    \E b \in BatchIds :
        /\ etl_batch[b].status = "categorized"
        /\ task_exc[b] = "returned"
        /\ redelivered = {Msg("categorize_transactions_task", b)}
        /\ Msg("categorize_transactions_task", b) \notin queue
        /\ upload_result[b].path = "worker"
        /\ StagedOf(staged, b) # {}
        /\ etl_batch[b].processed_records = Cardinality(StagedOf(staged, b))

\* ------------------------------------------------------------------------
\* Further properties of the fact loader and the manual API (SpecLoad)
\* ------------------------------------------------------------------------
CommitKeepsInserts ==
    \A p \in Loaders :
        (pc[p] = "commit" /\ pc'[p] = "refresh")
        => /\ session[p].facts \subseteq facts'
           /\ session[p].enriched \subseteq enriched'

RefreshIsBestEffort ==
    \A p \in Loaders :
        (pc[p] = "refresh" /\ pc'[p] # "refresh")
        => /\ facts' = facts
           /\ enriched' = enriched
           /\ inserted'[p] = inserted[p]
           /\ load_result'[p] \in {"ok", "ok_refresh_failed"}

\* C17: the inserts of a load are committed before the refresh of the
\* derived aggregates, and the refresh step, failing or not, leaves the
\* committed facts alone and ends the call with its inserted count.
C17_RefreshFailureKeepsLoad == [][CommitKeepsInserts /\ RefreshIsBestEffort]_vars

\* C17 witness: a run that inserted rows has returned although its refresh
\* failed, and its facts are committed.
C17_RefreshFailedAfterInserts ==
    \E p \in Loaders :
        /\ pc[p] = "idle"
        /\ load_result[p] = "ok_refresh_failed"
        /\ inserted[p] > 0
        /\ Cardinality({f \in facts : ThisRun(p, f)}) = inserted[p]

\* C18: TxnFact and TxnEnriched are one to one by txn_id: every fact has
\* exactly one enrichment row and every enrichment row has its fact.
C18_FactEnrichedOneToOne ==
    /\ \A f \in facts : Cardinality({e \in enriched : e.txn_id = f.txn_id}) = 1
    /\ \A e \in enriched : \E f \in facts : f.txn_id = e.txn_id

\* ------------------------------------------------------------------------
\* Worker retries
\* ------------------------------------------------------------------------
\* the errors of the infrastructure (database, broker), as opposed to the
\* errors of the data (unreadable file, failed mapping, password, bad call)
TransientErrors == {"OperationalError"}

\* C14: a worker task retries at most 3 times, with a longer countdown each
\* time, and then returns an error result; only transient infrastructure
\* errors are retried, never an error of the data.
C14_RetriesOnlyTransientErrors ==
    /\ Len(retry_log) <= max_retries
    /\ \A i \in 1..Len(retry_log) :
          /\ retry_log[i].countdown = Countdown(i - 1)
          /\ retry_log[i].exc.type \in TransientErrors

C19_PasswordErrorsAreDistinguished ==
    (/\ job.state = "done" /\ job.task = "upload_pdf_etl"
     /\ FileById(job.file).encrypted_with # NULL
     /\ job.password # FileById(job.file).encrypted_with)
    => /\ response.code = 400
       /\ response.detail # "Failed to open PDF"
       /\ job.password = NULL
             => response.detail = "PDF is password protected. Please provide the password."
       /\ job.password = "wrong"
             => response.detail = "PDF password is incorrect. Please check the password and try again."

\* ------------------------------------------------------------------------
\* Sheets with a letterhead
\* ------------------------------------------------------------------------
\* C20: a sheet with two letterhead rows and the header Value Date |
\* Narration | Withdrawal Amt. | Deposit Amt. in row 3, uploaded as GENERIC,
\* is read as an HDFC sheet: its row with a withdrawal of 450.00 becomes the
\* canonical row with amount 450.00, direction debit and description
\* "SWIGGY PAYMENT".
C20_LetterheadSheetReadAsHdfc ==
    (/\ job.state = "done" /\ job.task = "upload_xlsx_etl"
     /\ job.file = "letterhead.xlsx" /\ job.bank_code = "GENERIC")
    => \E i \in 1..Len(canonical) :
          /\ canonical[i].amount = 450
          /\ canonical[i].direction = "debit"
          /\ canonical[i].description = "SWIGGY PAYMENT"

\* ------------------------------------------------------------------------
\* Header detection under leading rows
\* ------------------------------------------------------------------------
\* the sheets that hold the table of hdfc_plain.xlsx under 0, 1 or 3 leading rows
SameTableFiles == {"hdfc_plain.xlsx", "lead1.xlsx", "lead3.xlsx", "titled.xlsx"}

\* the rows above the true header of a sheet
LeadingRows(grid) == SubSeq(grid, 1, FirstOf({i \in 1..Len(grid) : grid[i] = HdfcHeader}) - 1)

\* the upload of a sheet of the family has ended
SameTableUploaded ==
    /\ job.state = "done" /\ job.task = "upload_xlsx_etl"
    /\ job.file \in SameTableFiles

\* the header found and the rows parsed are those of the sheet without leading rows
SameAsWithoutLeadingRows ==
    /\ read_excel_with_auto_header(FileById(job.file).grid)
          = read_excel_with_auto_header(FileById("hdfc_plain.xlsx").grid)
    /\ canonical = ExcelRows(FileById("hdfc_plain.xlsx"), job.bank_code)[2]

\* C21: a sheet with 0, 1 or 3 leading rows above the same header and data
\* rows gives the same header row and the same canonical rows, whatever the
\* leading rows are.
C21_SameRowsUnderAnyLeadingRows == SameTableUploaded => SameAsWithoutLeadingRows

\* C21 (amended): the same, provided that no leading row is itself a header
\* candidate (a date word together with a description or money word).
C21_SameRowsUnderPlainLeadingRows ==
    (/\ SameTableUploaded
     /\ \A i \in 1..Len(LeadingRows(FileById(job.file).grid)) :
           ~is_header_row(LeadingRows(FileById(job.file).grid)[i]))
    => SameAsWithoutLeadingRows

\* the sheet with three leading rows was uploaded as HDFC and its rows parsed
C21_ThreeLeadingRowsParsed ==
    /\ SameTableUploaded /\ job.file = "lead3.xlsx" /\ job.bank_code = "HDFC"
    /\ Len(LeadingRows(FileById(job.file).grid)) = 3
    /\ Len(canonical) = 2

\* ------------------------------------------------------------------------
\* Gmail messages
\* ------------------------------------------------------------------------
\* the patterns whose first occurrence in a text is a positive number
PositivePatterns(text) ==
    {k \in 1..4 : /\ AmountSearch(text)[k] # NULL
                  /\ CaptureValue(AmountSearch(text)[k]) # None
                  /\ CaptureValue(AmountSearch(text)[k])[1] > 0}

\* the date patterns whose occurrence in a text parses with one of its formats
ParsingDatePatterns(text) ==
    {k \in 1..5 : /\ DateSearch(text)[k] # NULL
                  /\ \E i \in 1..Len(DateFormats[k]) :
                        strptime(DateSearch(text)[k], DateFormats[k][i]) # None}

\* the messages of the list that carry an amount, in order
RECURSIVE WithAmount(_)
WithAmount(messages) ==
    IF messages = <<>> THEN <<>>
    ELSE (IF PositivePatterns(Head(messages).subject) # {} THEN <<Head(messages)>> ELSE <<>>)
           \o WithAmount(Tail(messages))

\* C22: the parser emits a record for a message exactly when one of the
\* amount patterns, tried in priority order, gives a positive number, and the
\* first such pattern gives the amount; a message without one is dropped;
\* every record has amount > 0 and a date, the current day if none parses.
C22_RecordIffPositiveAmount ==
    gmail_done =>
      /\ Len(gmail_records) = Len(WithAmount(gmail_msgs))
      /\ \A i \in 1..Len(gmail_records) :
            LET r == gmail_records[i]
                text == WithAmount(gmail_msgs)[i].subject
            IN /\ r.gmail_message_id = WithAmount(gmail_msgs)[i].id
               /\ r.amount > 0
               /\ r.amount = CaptureValue(AmountSearch(text)[
                                CHOOSE k \in PositivePatterns(text) :
                                   \A j \in PositivePatterns(text) : k <= j])[1]
               /\ IF ParsingDatePatterns(text) = {} THEN r.txn_date \in Clock
                  ELSE \E k \in ParsingDatePatterns(text) : \E f \in 1..Len(DateFormats[k]) :
                          strptime(DateSearch(text)[k], DateFormats[k][f]) = Some(r.txn_date)

\* a mail without an amount was dropped and the next one, whose first pattern
\* finds 0 and whose date does not parse, gave a record dated today
C22_DroppedAndDefaulted ==
    /\ gmail_done
    /\ Len(gmail_msgs) = 2
    /\ gmail_msgs[1].id = "m4" /\ gmail_msgs[2].id = "m6"
    /\ Len(gmail_records) = 1
    /\ gmail_records[1].gmail_message_id = "m6"
    /\ gmail_records[1].amount = 450
    /\ gmail_records[1].txn_date \in Clock

\* ------------------------------------------------------------------------
\* C23: keyword table order
\* ------------------------------------------------------------------------
\* key i of KEYWORD_MAP is a proper substring of key j and the two map to
\* different (category, subcategory) results
ShadowedBy(i, j) ==
    /\ i # j
    /\ KEYWORD_MAP[i].key \in CatKeys(KEYWORD_MAP[j].key)
    /\ <<KEYWORD_MAP[i].cat, KEYWORD_MAP[i].subcat>> # <<KEYWORD_MAP[j].cat, KEYWORD_MAP[j].subcat>>

\* C23: a categorized description that contains the longer key of a pair of
\* KEYWORD_MAP keys, one a substring of the other with a different result,
\* is never given the result of the shorter key of that pair.
C23_LongerKeyBeforeShorter ==
    kw_out # NoCategory =>
        \A i, j \in 1..Len(KEYWORD_MAP) :
            (ShadowedBy(i, j) /\ KEYWORD_MAP[j].key \in CatKeys(lower(kw_desc)))
                => <<kw_out[1], kw_out[2]>> # <<KEYWORD_MAP[i].cat, KEYWORD_MAP[i].subcat>>

\* ------------------------------------------------------------------------
\* C29, C25: the stored fingerprint, manual edits and rule changes (SpecEdit)
\* ------------------------------------------------------------------------
\* C29: every committed fact's stored dedupe_fp is the fingerprint of its
\* current user_id, txn_date, amount, direction, description, merchant and
\* account_ref, also after update_transaction has changed one of them.
C29_StoredFpMatchesFields ==
    \A f \in facts : f.dedupe_fp = ContentFpOfFact(f)

\* the loaded facts that carry the content of a staged row
FactsOfRow(s) ==
    {f \in facts : /\ f.source_type = "file"
                   /\ f.user_id = s.user_id
                   /\ f.txn_date = s.txn_date
                   /\ f.amount = s.amount
                   /\ f.direction = s.direction
                   /\ f.description = s.description_raw}

\* C25: whatever manual edits and rule changes happen between two loads, a
\* staged row that was already loaded is not loaded a second time: no two
\* facts carry the content of one staged row.
C25_NoSecondFactForLoadedRow ==
    \A s \in staging : Cardinality(FactsOfRow(s)) <= 1

\* ------------------------------------------------------------------------
\* C28: batch counters and staged rows (SpecBatch)
\* ------------------------------------------------------------------------
\* C28: in every committed state a batch whose status is parsed or
\* categorized has exactly total_records staged rows, all of them counted
\* as valid: status and counters are not visible without the rows.
C28_ParsedBatchHasItsRows ==
    \A b \in BatchIds :
        etl_batch[b].status \in {"parsed", "categorized"}
        => /\ Cardinality(StagedOf(staged, b)) = etl_batch[b].total_records
           /\ etl_batch[b].total_records = etl_batch[b].valid_records

\* ------------------------------------------------------------------------
\* C27: progress of a batch (SpecBatchFair)
\* ------------------------------------------------------------------------
TerminalStatuses == {"categorized", "loaded", "failed"}

\* C27: when the dispatched tasks are eventually run, every batch created
\* in pending eventually has a terminal status (categorized, loaded or
\* failed), also when its parse produced no record.  Stated here for the
\* runs in which no task of the batch raises.
C27_PendingBatchEndsTerminal ==
    (etl_batch["b1"].status = "pending")
        ~> (etl_batch["b1"].status \in TerminalStatuses \/ task_exc["b1"] = "raised")

\* ------------------------------------------------------------------------
\* C26: two loader runs over the same new fingerprints (SpecLoad)
\* ------------------------------------------------------------------------
\* C26: two concurrent runs whose rows overlap on two or more new
\* fingerprints never wait on each other's pending insert at the same
\* time, in whatever order they take the rows, and no insert of a run is
\* aborted because of the other run's pending insert.
C26_NoWaitCycle ==
    \A p \in Loaders : ~InWaitCycle(p) /\ insert_err[p] # DeadlockError

\* ------------------------------------------------------------------------
\* C24: bulk import is all or nothing (SpecApi)
\* ------------------------------------------------------------------------
\* a step of bulk_import_transactions
BulkImportStep == api_calls' = api_calls + 1

BulkAllOrNothing ==
    LET r == api_response'
        file == CHOOSE fl \in BulkFiles : fl.name = r.file
        added == facts' \ facts
        added_enr == enriched' \ enriched
        nothing == added = {} /\ added_enr = {}
        all_rows == /\ Cardinality(added) = Len(file.rows)
                    /\ \A f \in added : f.user_id = r.user
                    /\ \A e \in added_enr : \E f \in added : f.txn_id = e.txn_id
    IN /\ facts \subseteq facts'
       /\ enriched \subseteq enriched'
       /\ nothing \/ all_rows
       /\ (\E i \in 1..Len(file.rows) : ~RowValid(file.rows[i]))
             => r.code = 200 /\ ~r.success /\ r.imported = 0 /\ r.errors > 0 /\ nothing
       /\ r.code # 200 => nothing
       /\ all_rows /\ ~nothing => r.success /\ r.imported = Len(file.rows)

\* C24: when at least one row of the file is invalid the response has
\* success = false and imported = 0 and no fact or enrichment row is added;
\* when the import phase fails nothing of the file stays committed: every
\* bulk import extends the facts by all rows of the file or leaves the facts
\* and the enrichment rows unchanged.
C24_BulkImportAllOrNothing == [][BulkImportStep => BulkAllOrNothing]_vars

\* an import of three valid rows failed after two of them were flushed, and
\* the user has no fact
C24_ImportFailedMidFile ==
    /\ api_response.op = "bulk_import_transactions"
    /\ api_response.file = "repeat.csv"
    /\ api_response.code = 500
    /\ ~\E f \in facts : f.user_id = api_response.user

\* ------------------------------------------------------------------------
\* C30: user isolation (SpecApi)
\* ------------------------------------------------------------------------
IsolatedOps == {"get_batch_status", "get_batch_transactions", "get_transaction",
                "update_transaction", "delete_transaction"}

\* a request of user u to one of the five endpoints is answered
AnsweredTo(u) ==
    /\ api_response' # api_response
    /\ api_response'.op \in IsolatedOps
    /\ api_response'.user = u

FactsOfOthers(u, fs) == {f \in fs : f.user_id # u}

\* enrichment rows of the facts of other users (the facts before the step)
EnrichedOfOthers(u, es) ==
    {e \in es : \E f \in facts : f.txn_id = e.txn_id /\ f.user_id # u}

BatchesOfOthers(u) == {b \in BatchIds : etl_batch[b].user_id # u}

\* the step changes no row of another user
ChangesOnlyOwnRows(u) ==
    /\ FactsOfOthers(u, facts') = FactsOfOthers(u, facts)
    /\ EnrichedOfOthers(u, enriched') = EnrichedOfOthers(u, enriched)
    /\ \A b \in BatchesOfOthers(u) :
          /\ etl_batch'[b] = etl_batch[b]
          /\ {s \in staged' : s.batch_id = b} = {s \in staged : s.batch_id = b}

\* the response holds rows of u only, and is found or not found by u's own
\* rows alone
AnswersFromOwnRows(u) ==
    LET r == api_response'
        own_txn == \E f \in facts : f.user_id = u /\ f.txn_id = r.txn_id
        own_batch == r.batch_id # NULL /\ etl_batch[r.batch_id].user_id = u
    IN /\ \A f \in r.facts_out : f.user_id = u
       /\ \A i \in 1..Len(r.batch_out) : r.batch_out[i].user_id = u
       /\ \A s \in r.rows_out : etl_batch[s.batch_id].user_id = u
       /\ (r.code = 404) <=> ~(own_txn \/ own_batch)

\* the request names a row of another user
NamesRowOfOther(u) ==
    LET r == api_response'
    IN \/ \E f \in facts : f.txn_id = r.txn_id /\ f.user_id # u
       \/ /\ r.batch_id # NULL
          /\ etl_batch[r.batch_id].status # "absent"
          /\ etl_batch[r.batch_id].user_id # u

\* C30: a batch status query, a batch transactions query and a transaction
\* get, update or delete of one user answer from that user's rows only and
\* change that user's rows only; a request that names a batch or transaction
\* of another user is answered not-found and leaves batches, staged rows,
\* facts and enrichment unchanged.
C30_UserIsolation ==
    [][\A u \in ApiUsers :
          AnsweredTo(u) =>
             /\ ChangesOnlyOwnRows(u)
             /\ AnswersFromOwnRows(u)
             /\ NamesRowOfOther(u) =>
                   /\ api_response'.code = 404
                   /\ UNCHANGED <<facts, enriched, etl_batch, staged>>]_vars

\* an update of an enriched fact of another user was answered not-found
C30_UpdateOfForeignFactNotFound ==
    /\ api_response.op = "update_transaction"
    /\ api_response.code = 404
    /\ \E f \in facts :
          /\ f.txn_id = api_response.txn_id
          /\ f.user_id # api_response.user
          /\ \E e \in enriched : e.txn_id = f.txn_id

====
